---- MODULE Spec2Model ----
(***************************************************************************)
(* Redzone Companion: the cache layer (src/lib/storage.ts), the week       *)
(* resolver (src/lib/api.ts), the cross-league lineup aggregator and the   *)
(* refresh cycle (RedZoneView / AllLeaguesView) and the game filter.       *)
(* Each component has its own specification over the shared variables.     *)
(***************************************************************************)
EXTENDS Integers, Sequences, FiniteSets, TLC

VARIABLES
    \* ---- cache layer (src/lib/storage.ts)
    localStorage,   \* key -> stored item (the browser's persistent store)
    debounceMap,    \* key -> the timer registered for the key, or NoTimer
    timers,         \* the pending setTimeout callbacks
    now,            \* Date.now(), in ms
    ticks,          \* how many times the clock has advanced
    writes,         \* how many set / setImmediate calls were made
    lastGet,        \* outcome of the latest storage.get, NoGet after any other step
    lastWrite,      \* outcome of the latest physical write (timer callback or setImmediate)
    req,            \* key -> the write request whose payload the store is known to hold;
                    \* calls: the storage.set calls it stands for, counted up to MaxWrites
    \* ---- week resolver (src/lib/api.ts)
    nflState,               \* what the league provider's state endpoint answers (its week)
    scoreboard,             \* what the schedule provider's scoreboard answers
    weekCalculationCache,   \* the memoized week
    lastCall,               \* the latest resolver call: what it fetched and what it gave
    \* ---- RedZoneView: games and their filter
    games,                  \* the games of the week, as fetched
    gameConfig,             \* the stored GameConfig list
    filteredGames,          \* the games shown
    selectedGameIndex,      \* index into filteredGames (0-based), NoSelection for null
    \* ---- RedZoneView: refreshData and fetchAllLineups
    userLeagues,            \* the configured league rows
    gateway,                \* what the Sleeper league calls answer, per configured league
    outage,                 \* the league whose calls reject in the refresh under way, 0 for none
    sleeperPlayers,         \* the player table shown
    currentWeek,            \* the week shown
    playerLineups,          \* the lineups shown
    loading,                \* the loading flag
    error,                  \* the error message shown, "" for none
    pc,                     \* where refreshData stands: "idle", "fetching", "leagues"
    idx,                    \* fetchAllLineups: the league the loop fetches next
    allLineups,             \* fetchAllLineups: its local list
    leagueCalls,            \* fetchAllLineups: the league calls in flight, what has settled
    hist,                   \* the refresh under way: what was shown before it, what it did
    \* ---- GameConfigModal
    modal,                  \* a game of the modal: its kickoff, the window filter, its visibility
    \* ---- RedZoneView: the keydown listener
    keydown,                \* the key of the keydown event just handled, NoKey after any other step
    \* ---- RedZoneView: the league filter
    hiddenLeagues,          \* the ids of the leagues switched off in the league filter
    \* ---- Dashboard: the user's league rows
    dashboard               \* the user_leagues table, the component's state, the calls in flight

\* the cache layer's variables but the clock
cacheRest == <<localStorage, debounceMap, timers, ticks, writes, lastGet, lastWrite, req>>
cacheVars == <<cacheRest, now>>

(***************************************************************************)
(* Cache layer                                                             *)
(***************************************************************************)
SLEEPER_PLAYERS == "redzone_sleeper_players"
SELECTED_GAME == "redzone_selected_game"
GAMES == "redzone_games"
PLAYER_LINEUPS == "redzone_player_lineups"
CURRENT_WEEK == "redzone_current_week"
GAME_CONFIG == "redzone_game_config"
HIDDEN_LEAGUES == "redzone_hidden_leagues"
USER_LEAGUES == "redzone_user_leagues"

\* the keys of STORAGE_KEYS the model exercises
STORAGE_KEYS == {SLEEPER_PLAYERS, SELECTED_GAME, GAMES, PLAYER_LINEUPS, CURRENT_WEEK, GAME_CONFIG,
                 HIDDEN_LEAGUES, USER_LEAGUES}

\* the keys the cache specification reads and writes
CacheKeys == {SLEEPER_PLAYERS, SELECTED_GAME}

CACHE_DURATION == 1800000
DEBOUNCE_DELAY == 500

\* clock steps of the cache specification and how many of them a run takes
ShortStep == 250
LongStep == 1799750
MaxTicks == 3
MaxWrites == 2

\* a payload as JSON sees it: a value JSON can carry, null, or NaN (which it cannot)
Value(x) == [kind |-> "value", val |-> x]
NULL == [kind |-> "null", val |-> 0]
NaN == [kind |-> "nan", val |-> 0]
\* a number payload, an object payload
Num(x) == [kind |-> "number", val |-> x]
Obj(x) == [kind |-> "object", val |-> x]
Arr(x) == [kind |-> "array", val |-> x]

\* payloads handed to set / setImmediate in the cache specification
Values == {Value("v1"), Value("v2"), NaN}

\* JSON.stringify followed by JSON.parse, on the payload: NaN is written as null
JsonData(v) == IF v.kind = "nan" THEN NULL ELSE v

NoItem == [kind |-> "none", timestamp |-> 0, data |-> NULL]
BadItem == [kind |-> "bad", timestamp |-> 0, data |-> NULL]

\* const dataString = JSON.stringify({ timestamp: Date.now(), data })
DataString(t, v) == [kind |-> "json", timestamp |-> t, data |-> JsonData(v)]

NoTimer == [key |-> "", due |-> 0, dataString |-> NoItem]
NoGet == [valid |-> FALSE, key |-> "", at |-> 0, result |-> NULL]
NoWrite == [key |-> "", first |-> "none", retry |-> "none", raised |-> "none", stored |-> FALSE,
            evicted |-> {}]
NoReq == [phase |-> "none", v |-> NULL, at |-> 0, calls |-> 0]

\* what one localStorage.setItem call can do
Outcomes == {"ok", "quota", "error"}

\* an entry of age exactly CACHE_DURATION taken as expired
ExpiredAtDuration(item, t) == t - item.timestamp >= CACHE_DURATION

\* Date.now() - cached.timestamp > CACHE_DURATION
Expired(item, t) == t - item.timestamp > CACHE_DURATION

\* a clearExpired that removes nothing
ClearNothing(store, t) == store

\* storage.clearExpired over a store: expired and unparsable items of the known keys go
ClearExpired(store, t) ==
    [k \in DOMAIN store |->
        IF k \in STORAGE_KEYS /\ store[k].kind = "bad" THEN NoItem
        ELSE IF k \in STORAGE_KEYS /\ store[k].kind = "json" /\ Expired(store[k], t) THEN NoItem
        ELSE store[k]]

\* what the catch of the retry raises on a second QuotaExceededError: the
\* players key returns, every other key falls out of the if; neither throws
RetryQuotaRaised(k) == IF k = SLEEPER_PLAYERS THEN "none" ELSE "none"

\* try { setItem } catch { quota: clearExpired, retry once } of set's timer and setImmediate
\* r1, r2: what the first call and the retry do. Gives the store, the error raised
\* and the keys clearExpired removed.
WriteItem(store, k, str, t, r1, r2) ==
    IF r1 = "ok"
    THEN [store |-> [store EXCEPT ![k] = str], raised |-> "none", retry |-> "none",
          stored |-> TRUE, evicted |-> {}]
    ELSE IF r1 = "error"
    THEN [store |-> store, raised |-> "error", retry |-> "none", stored |-> FALSE,
          evicted |-> {}]
    ELSE LET cleared == ClearExpired(store, t)
             evicted == {j \in DOMAIN store : store[j] # cleared[j]}
         IN
         IF r2 = "ok"
         THEN [store |-> [cleared EXCEPT ![k] = str], raised |-> "none", retry |-> r2,
               stored |-> TRUE, evicted |-> evicted]
         ELSE IF r2 = "quota"
         THEN [store |-> cleared, raised |-> RetryQuotaRaised(k), retry |-> r2,
               stored |-> FALSE, evicted |-> evicted]
         ELSE [store |-> cleared, raised |-> "error", retry |-> r2, stored |-> FALSE,
               evicted |-> evicted]

\* req after a store changed from old to new by eviction: evicted keys lose their request
ReqAfterEviction(r, old, new) ==
    [k \in DOMAIN r |-> IF old[k] # new[k] THEN NoReq ELSE r[k]]

\* a storage.set that registers its timer and cancels none
AfterSetNoCancel(c, k, v, t) ==
    LET tm == [key |-> k, due |-> t + DEBOUNCE_DELAY, dataString |-> DataString(t, v)] IN
    [timers |-> c.timers \cup {tm},
     debounceMap |-> [c.debounceMap EXCEPT ![k] = tm],
     req |-> [c.req EXCEPT ![k] = [phase |-> "pending", v |-> v, at |-> t, calls |-> 1]]]

\* storage.set(key, data) at time t, on c = the timers, debounceMap and request log:
\* cancel the key's timer, register a new one
AfterSet(c, k, v, t) ==
    LET tm == [key |-> k, due |-> t + DEBOUNCE_DELAY, dataString |-> DataString(t, v)] IN
    [timers |-> (c.timers \ {c.debounceMap[k]}) \cup {tm},
     debounceMap |-> [c.debounceMap EXCEPT ![k] = tm],
     req |-> [c.req EXCEPT ![k] =
                [phase |-> "pending", v |-> v, at |-> t,
                 calls |-> IF c.req[k].phase = "pending" /\ c.req[k].calls < MaxWrites
                           THEN c.req[k].calls + 1
                           ELSE IF c.req[k].phase = "pending" THEN c.req[k].calls ELSE 1]]]

\* storage.set calls made one after the other in the same handler
RECURSIVE AfterSets(_, _, _)
AfterSets(c, calls, t) ==
    IF Len(calls) = 0 THEN c
    ELSE AfterSets(AfterSet(c, calls[1].key, calls[1].data, t), Tail(calls), t)

StorageSets(calls) ==
    LET c == AfterSets([timers |-> timers, debounceMap |-> debounceMap, req |-> req],
                       calls, now) IN
    /\ timers' = c.timers
    /\ debounceMap' = c.debounceMap
    /\ req' = c.req

StorageSet(k, v) == StorageSets(<<[key |-> k, data |-> v]>>)

Set(k, v) ==
    /\ writes < MaxWrites
    /\ writes' = writes + 1
    /\ StorageSet(k, v)
    /\ lastGet' = NoGet
    /\ lastWrite' = NoWrite
    /\ UNCHANGED <<localStorage, now, ticks>>

\* a timer callback that ends without touching debounceMap
MapKept(m, k) == m

\* finally { debounceMap.delete(key) }
MapAfterFinally(m, k) == [m EXCEPT ![k] = NoTimer]

\* the timer callback of storage.set
TimerFire(t, r1, r2) ==
    /\ t \in timers
    /\ now >= t.due
    /\ LET w == WriteItem(localStorage, t.key, t.dataString, now, r1, r2) IN
       /\ localStorage' = w.store
       /\ lastWrite' = [key |-> t.key, first |-> r1, retry |-> w.retry,
                        raised |-> w.raised, stored |-> w.stored, evicted |-> w.evicted]
       /\ req' = [ReqAfterEviction(req, localStorage, w.store) EXCEPT ![t.key] =
                    IF w.stored /\ req[t.key].phase = "pending"
                    THEN [req[t.key] EXCEPT !.phase = "written"] ELSE NoReq]
    /\ timers' = timers \ {t}
    /\ debounceMap' = MapAfterFinally(debounceMap, t.key)
    /\ lastGet' = NoGet
    /\ UNCHANGED <<now, ticks, writes>>

\* storage.setImmediate(key, data)
SetImmediate(k, v, r1, r2) ==
    /\ writes < MaxWrites
    /\ writes' = writes + 1
    /\ LET w == WriteItem(localStorage, k, DataString(now, v), now, r1, r2) IN
       /\ localStorage' = w.store
       /\ lastWrite' = [key |-> k, first |-> r1, retry |-> w.retry,
                        raised |-> w.raised, stored |-> w.stored, evicted |-> w.evicted]
       /\ req' = [ReqAfterEviction(req, localStorage, w.store) EXCEPT ![k] =
                    IF w.stored THEN [phase |-> "immediate", v |-> v, at |-> now, calls |-> 0]
                    ELSE NoReq]
    /\ lastGet' = NoGet
    /\ UNCHANGED <<debounceMap, timers, now, ticks>>

\* storage.get(key): the value returned and the store it leaves
GetResult(store, k, t) ==
    IF store[k].kind = "none" THEN [result |-> NULL, store |-> store]
    ELSE IF store[k].kind = "bad" THEN [result |-> NULL, store |-> store]
    ELSE IF Expired(store[k], t) THEN [result |-> NULL, store |-> [store EXCEPT ![k] = NoItem]]
    ELSE [result |-> store[k].data, store |-> store]

Get(k) ==
    /\ LET g == GetResult(localStorage, k, now) IN
       /\ localStorage' = g.store
       /\ lastGet' = [valid |-> TRUE, key |-> k, at |-> now, result |-> g.result]
    /\ lastWrite' = NoWrite
    /\ UNCHANGED <<debounceMap, timers, now, ticks, writes, req>>

\* storage.clearExpired(), as loadCachedData calls it
ClearExpiredCall ==
    /\ localStorage' = ClearExpired(localStorage, now)
    /\ req' = ReqAfterEviction(req, localStorage, localStorage')
    /\ lastGet' = NoGet
    /\ lastWrite' = NoWrite
    /\ UNCHANGED <<debounceMap, timers, now, ticks, writes>>

\* the request log after localStorage.removeItem on the keys ks
Cleared(r, ks) ==
    [k \in DOMAIN r |-> IF k \in ks THEN [NoReq EXCEPT !.phase = "cleared"] ELSE r[k]]

\* storage.clearCache(): removeItem on every known key, nothing else
clearCache ==
    /\ localStorage' = [k \in DOMAIN localStorage |-> IF k \in STORAGE_KEYS THEN NoItem
                                                       ELSE localStorage[k]]
    /\ req' = Cleared(req, STORAGE_KEYS)
    /\ lastGet' = NoGet
    /\ lastWrite' = NoWrite
    /\ UNCHANGED <<debounceMap, timers, now, ticks, writes>>

\* storage.setSelectedGame(index), null written as NoSelection
setSelectedGame(index) ==
    IF index # 0 - 1
    THEN Set(SELECTED_GAME, Num(index))
    ELSE /\ localStorage' = [localStorage EXCEPT ![SELECTED_GAME] = NoItem]
         /\ req' = Cleared(req, {SELECTED_GAME})
         /\ lastGet' = NoGet
         /\ lastWrite' = NoWrite
         /\ UNCHANGED <<debounceMap, timers, now, ticks, writes>>

\* time passes; a timer fires when it is due, so the clock never skips a due time
Tick(d) ==
    /\ ticks < MaxTicks
    /\ \A t \in timers : now + d <= t.due
    /\ now' = now + d
    /\ ticks' = ticks + 1
    /\ lastGet' = NoGet
    /\ lastWrite' = NoWrite
    /\ UNCHANGED <<localStorage, debounceMap, timers, writes, req>>

\* the cache layer's own state right after the module is loaded
CacheQuiet ==
    /\ debounceMap = [k \in STORAGE_KEYS |-> NoTimer]
    /\ timers = {}
    /\ ticks = 0
    /\ writes = 0
    /\ lastGet = NoGet
    /\ lastWrite = NoWrite
    /\ req = [k \in STORAGE_KEYS |-> NoReq]

\* the cache layer right after the module is loaded on an empty store, the clock apart
CacheIdle ==
    /\ localStorage \in [STORAGE_KEYS -> {NoItem}]
    /\ CacheQuiet

\* the stores an earlier session can leave behind: nothing, or text that
\* JSON.parse rejects
LeftoverStores ==
    {st \in [STORAGE_KEYS -> {NoItem, BadItem}] : \A k \in STORAGE_KEYS \ CacheKeys : st[k] = NoItem}

CacheNext ==
    \/ \E k \in CacheKeys, v \in Values : Set(k, v)
    \/ \E t \in timers, r1 \in Outcomes, r2 \in Outcomes : TimerFire(t, r1, r2)
    \/ \E k \in CacheKeys, v \in Values, r1 \in Outcomes, r2 \in Outcomes : SetImmediate(k, v, r1, r2)
    \/ \E k \in CacheKeys : Get(k)
    \/ ClearExpiredCall
    \/ \E d \in {ShortStep, LongStep} : Tick(d)


(***************************************************************************)
(* Week resolver                                                           *)
(***************************************************************************)
MS_PER_HOUR == 3600000
WEEK_CACHE_DURATION == 600000

\* week numbers of the model: events and the scoreboard carry 0..MaxWeek, the
\* league provider 0..MaxWeek + 1; 0 stands for an absent week in the two
\* providers' declared weeks
MaxWeek == 1
MaxEvents == 2

\* kickoff instants (ms): 20:05 on day 0 and one hour later
Kick1 == 72300000
Kick2 == Kick1 + MS_PER_HOUR
Kickoffs == {Kick1, Kick2}

HalfHour == MS_PER_HOUR \div 2

\* the instants at which the resolvers are called: around 9 h and 9.5 h after
\* the later kickoff, just before 9 h after the earlier one, and the memo's
\* lifetime after the instant just before 9 h after the later one
WeekInstants ==
    {Kick1 + 9 * MS_PER_HOUR - 1, Kick2 + 9 * MS_PER_HOUR - 1, Kick2 + 9 * MS_PER_HOUR,
     Kick2 + 9 * MS_PER_HOUR - 1 + WEEK_CACHE_DURATION,
     Kick2 + 19 * HalfHour - 1, Kick2 + 19 * HalfHour}

Events == [week : 0..MaxWeek, date : Kickoffs]

RECURSIVE SeqsUpTo(_, _)
SeqsUpTo(S, n) ==
    IF n = 0 THEN {<<>>}
    ELSE LET shorter == SeqsUpTo(S, n - 1) IN
         shorter \cup {Append(q, x) : q \in {r \in shorter : Len(r) = n - 1}, x \in S}

EventLists == SeqsUpTo(Events, MaxEvents)

NoMemo == [valid |-> FALSE, timestamp |-> 0, week |-> 0]

\* Date.prototype.getHours, the clock read as UTC
GetHours(t) == (t \div MS_PER_HOUR) % 24

\* d.setHours(h) with h given in half hours: MakeTime takes the integer part of
\* the hour (ToIntegerOrInfinity) and keeps the minutes, seconds and ms of d
SetHours(t, halfHours) ==
    t - GetHours(t) * MS_PER_HOUR + (halfHours \div 2) * MS_PER_HOUR

\* [...new Set(events.map(game => game.week?.number).filter(Boolean))]
GameWeeks(events) == {events[i].week : i \in DOMAIN events} \ {0}

\* the declared week taken as it comes, absent or not
RawWeek(nflWeek) == nflWeek

\* nflState.week || 1
SleeperWeek(nflWeek) == IF nflWeek = 0 THEN 1 ELSE nflWeek

\* a candidate that is always Sleeper's week
CandidateSleeper(sleeperWeek, espnWeek, events) == sleeperWeek

\* the candidate week: Sleeper's week, or ESPN's when only ESPN's is among the games
CandidateWeek(sleeperWeek, espnWeek, events) ==
    IF sleeperWeek \notin GameWeeks(events) /\ espnWeek # 0 /\ espnWeek \in GameWeeks(events)
    THEN espnWeek ELSE sleeperWeek

\* scoreboard.events.filter(game => game.week?.number === (sleeperWeek - 1))
PreviousWeekGames(events, sleeperWeek) ==
    SelectSeq(events, LAMBDA e : e.week = sleeperWeek - 1)

\* previousWeekGames.reduce((latest, game) => gameTime > latestTime ? game : latest)
RECURSIVE LatestGame(_)
LatestGame(previousWeekGames) ==
    IF Len(previousWeekGames) = 1 THEN previousWeekGames[1]
    ELSE LET latest == LatestGame(SubSeq(previousWeekGames, 1, Len(previousWeekGames) - 1))
             game == previousWeekGames[Len(previousWeekGames)]
         IN IF game.date > latest.date THEN game ELSE latest

\* getEffectiveCurrentWeek: setHours(getHours() + 3.5), then + 6 * 60 * 60 * 1000
SixHoursAfterGame(kickoff) ==
    SetHours(kickoff, 2 * GetHours(kickoff) + 7) + 6 * MS_PER_HOUR

\* the kickoff plus nine and a half hours, no part of the hour dropped
GameEndTimeExact(kickoff) == kickoff + 19 * HalfHour

\* fetchFilteredCurrentWeekGames: setHours(getHours() + 9.5)
GameEndTime(kickoff) == SetHours(kickoff, 2 * GetHours(kickoff) + 19)

\* the week getEffectiveCurrentWeek computes on a memo miss
EffectiveWeek(nflWeek, espnWeek, events, t) ==
    LET sleeperWeek == SleeperWeek(nflWeek)
        previous == PreviousWeekGames(events, sleeperWeek)
    IN IF Len(previous) > 0 /\ t < SixHoursAfterGame(LatestGame(previous).date)
       THEN sleeperWeek - 1
       ELSE CandidateWeek(sleeperWeek, espnWeek, events)

\* the week fetchFilteredCurrentWeekGames computes on a memo miss
FilteredEffectiveWeek(nflWeek, espnWeek, events, t) ==
    LET sleeperWeek == SleeperWeek(nflWeek)
        previous == PreviousWeekGames(events, sleeperWeek)
    IN IF Len(previous) > 0 /\ t < GameEndTime(LatestGame(previous).date)
       THEN sleeperWeek - 1
       ELSE CandidateWeek(sleeperWeek, espnWeek, events)

\* the scoreboard's events handed back as they came
AllEvents(events, week) == events

\* events: filteredEvents.length > 0 ? filteredEvents : scoreboard.events
FilteredEvents(events, week) ==
    LET filtered == SelectSeq(events, LAMBDA e : e.week = week)
    IN IF Len(filtered) > 0 THEN filtered ELSE events

\* a memo test that finds no memo young enough
MemoNever(memo, t) == memo.valid /\ t - memo.timestamp < 0

\* weekCalculationCache && (now - weekCalculationCache.timestamp) < WEEK_CACHE_DURATION
MemoFresh(memo, t) == memo.valid /\ t - memo.timestamp < WEEK_CACHE_DURATION

\* stateOk, scoreboardOk: whether the provider calls of Promise.all succeeded
NoCall == [fn |-> "none", hit |-> FALSE, outcome |-> "none", week |-> 0, nflWeek |-> 0,
           espnWeek |-> 0, events |-> <<>>, eventsOut |-> <<>>, stateCalls |-> 0,
           scoreboardCalls |-> 0, at |-> 0, stateOk |-> FALSE, scoreboardOk |-> FALSE]

\* getEffectiveCurrentWeek(); sOk, eOk: the two calls of Promise.all succeed,
\* fOk: the state call of the catch block succeeds
GetEffectiveCurrentWeek(nflWeek, espnWeek, events, sOk, eOk, fOk) ==
    LET call == [NoCall EXCEPT !.fn = "getEffectiveCurrentWeek", !.at = now] IN
    IF MemoFresh(weekCalculationCache, now)
    THEN /\ lastCall' = [call EXCEPT !.hit = TRUE, !.outcome = "returned",
                                     !.week = weekCalculationCache.week]
         /\ UNCHANGED weekCalculationCache
    ELSE IF sOk /\ eOk
    THEN LET w == EffectiveWeek(nflWeek, espnWeek, events, now) IN
         /\ weekCalculationCache' = [valid |-> TRUE, timestamp |-> now, week |-> w]
         /\ lastCall' = [call EXCEPT !.outcome = "returned", !.week = w, !.nflWeek = nflWeek,
                            !.espnWeek = espnWeek, !.events = events,
                            !.stateCalls = 1, !.scoreboardCalls = 1,
                            !.stateOk = TRUE, !.scoreboardOk = TRUE]
    ELSE IF fOk
    THEN LET fallbackWeek == SleeperWeek(nflWeek) IN
         /\ weekCalculationCache' = [valid |-> TRUE, timestamp |-> now, week |-> fallbackWeek]
         /\ lastCall' = [call EXCEPT !.outcome = "returned", !.week = fallbackWeek,
                            !.nflWeek = nflWeek, !.stateCalls = 2, !.scoreboardCalls = 1,
                            !.stateOk = sOk, !.scoreboardOk = eOk]
    ELSE /\ lastCall' = [call EXCEPT !.outcome = "threw", !.stateCalls = 2,
                                     !.scoreboardCalls = 1,
                                     !.stateOk = sOk, !.scoreboardOk = eOk]
         /\ UNCHANGED weekCalculationCache

\* fetchFilteredCurrentWeekGames(); sOk, eOk: the state and scoreboard calls succeed
FetchFilteredCurrentWeekGames(nflWeek, espnWeek, events, sOk, eOk) ==
    LET call == [NoCall EXCEPT !.fn = "fetchFilteredCurrentWeekGames", !.at = now] IN
    IF MemoFresh(weekCalculationCache, now)
    THEN /\ UNCHANGED weekCalculationCache
         /\ lastCall' =
              IF eOk
              THEN [call EXCEPT !.hit = TRUE, !.outcome = "returned",
                                !.week = weekCalculationCache.week, !.espnWeek = espnWeek,
                                !.events = events, !.scoreboardCalls = 1,
                                !.scoreboardOk = TRUE,
                                !.eventsOut = FilteredEvents(events, weekCalculationCache.week)]
              ELSE [call EXCEPT !.hit = TRUE, !.outcome = "threw", !.scoreboardCalls = 1]
    ELSE IF sOk /\ eOk
    THEN LET w == FilteredEffectiveWeek(nflWeek, espnWeek, events, now) IN
         /\ weekCalculationCache' = [valid |-> TRUE, timestamp |-> now, week |-> w]
         /\ lastCall' = [call EXCEPT !.outcome = "returned", !.week = w, !.nflWeek = nflWeek,
                            !.espnWeek = espnWeek, !.events = events,
                            !.eventsOut = FilteredEvents(events, w),
                            !.stateCalls = 1, !.scoreboardCalls = 1,
                            !.stateOk = TRUE, !.scoreboardOk = TRUE]
    ELSE /\ lastCall' = [call EXCEPT !.outcome = "threw", !.stateCalls = 1,
                                     !.scoreboardCalls = 1,
                                     !.stateOk = sOk, !.scoreboardOk = eOk]
         /\ UNCHANGED weekCalculationCache

ResolveWeek ==
    \E sOk \in BOOLEAN, eOk \in BOOLEAN, fOk \in BOOLEAN :
        /\ GetEffectiveCurrentWeek(nflState, scoreboard.week, scoreboard.events, sOk, eOk, fOk)
        /\ UNCHANGED <<cacheVars, nflState, scoreboard>>

FetchFilteredGames ==
    \E sOk \in BOOLEAN, eOk \in BOOLEAN :
        /\ FetchFilteredCurrentWeekGames(nflState, scoreboard.week, scoreboard.events, sOk, eOk)
        /\ UNCHANGED <<cacheVars, nflState, scoreboard>>

\* the clock moves on to a later instant
WeekAdvance ==
    \E t \in WeekInstants :
        /\ t > now
        /\ now' = t
        /\ lastCall' = NoCall
        /\ UNCHANGED <<cacheRest, nflState, scoreboard, weekCalculationCache>>

\* the resolver right after the module is loaded
WeekIdle == weekCalculationCache = NoMemo /\ lastCall = NoCall

\* the providers, for the specifications that do not call them
NoUpstream == nflState = 0 /\ scoreboard = [week |-> 0, events |-> <<>>]

WeekInit ==
    /\ CacheIdle
    /\ now \in WeekInstants
    /\ nflState \in 0..(MaxWeek + 1)
    /\ scoreboard \in [week : 0..MaxWeek, events : EventLists]
    /\ WeekIdle

WeekNext == ResolveWeek \/ FetchFilteredGames \/ WeekAdvance

(***************************************************************************)
(* Game filter (RedZoneView, GameConfigModal)                              *)
(***************************************************************************)
MaxGames == 3

NoSelection == 0 - 1

\* the games a scoreboard can list: distinct ids, in any order
GameLists == {q \in SeqsUpTo([id : 1..MaxGames], MaxGames) :
                \A i, j \in DOMAIN q : i # j => q[i].id # q[j].id}

\* games.indexOf(game), 0-based
IndexOf(gs, g) == (CHOOSE i \in DOMAIN gs : gs[i] = g /\ \A j \in 1..(i - 1) : gs[j] # g) - 1

\* new Map(gameConfig.map(c => [c.gameId, c])).get(id): the last entry of the id
ConfigMapGet(config, id, default) ==
    LET hits == {i \in DOMAIN config : config[i].gameId = id}
    IN IF hits = {} THEN default ELSE config[CHOOSE i \in hits : \A j \in hits : j <= i]

\* a sort that leaves the list as it is
KeepOrder(q) == q

\* Array.prototype.sort((a, b) => a.customOrder - b.customOrder): stable
RECURSIVE SortByCustomOrder(_)
SortByCustomOrder(q) ==
    IF Len(q) <= 1 THEN q
    ELSE LET sorted == SortByCustomOrder(SubSeq(q, 1, Len(q) - 1))
             x == q[Len(q)]
         IN SelectSeq(sorted, LAMBDA y : y.config.customOrder <= x.config.customOrder)
            \o <<x>>
            \o SelectSeq(sorted, LAMBDA y : y.config.customOrder > x.config.customOrder)

\* filteredGamesMemo / applyGameConfiguration
ApplyGameConfiguration(gs, config) ==
    IF Len(gs) = 0 THEN <<>>
    ELSE IF Len(config) = 0 THEN gs
    ELSE LET withConfig == [i \in DOMAIN gs |->
                 [game |-> gs[i],
                  config |-> ConfigMapGet(config, gs[i].id,
                                 [gameId |-> gs[i].id, isVisible |-> TRUE,
                                  customOrder |-> IndexOf(gs, gs[i])])]]
             visible == SelectSeq(withConfig, LAMBDA e : e.config.isVisible)
             sorted == SortByCustomOrder(visible)
         IN [i \in DOMAIN sorted |-> sorted[i].game]

\* gameConfig.find(c => c.gameId === game.id): the first entry of the id
ConfigFind(config, id, default) ==
    LET hits == {i \in DOMAIN config : config[i].gameId = id}
    IN IF hits = {} THEN default ELSE config[CHOOSE i \in hits : \A j \in hits : i <= j]

\* GameConfigModal's useEffect: one entry per game, sorted by customOrder
InitialConfig(gs, config) ==
    LET entries == [i \in DOMAIN gs |->
            [game |-> gs[i],
             config |-> ConfigFind(config, gs[i].id,
                            [gameId |-> gs[i].id, isVisible |-> TRUE, customOrder |-> i - 1])]]
        sorted == SortByCustomOrder(entries)
    IN [i \in DOMAIN sorted |-> [gameId |-> sorted[i].config.gameId,
                                 isVisible |-> sorted[i].config.isVisible,
                                 customOrder |-> sorted[i].config.customOrder]]

\* handleSave: customOrder becomes the index in the modal's list
OrderedConfig(config) == [i \in DOMAIN config |-> [config[i] EXCEPT !.customOrder = i - 1]]

\* storage.set calls made by a component: the cache layer's part of the step
ComponentSets(calls) ==
    /\ StorageSets(calls)
    /\ lastGet' = NoGet
    /\ lastWrite' = NoWrite
    /\ UNCHANGED <<localStorage, now, ticks, writes>>

ComponentSet(k, v) == ComponentSets(<<[key |-> k, data |-> v]>>)

\* toggleGameVisibility on the modal's list until the games of hidden, and only
\* they, are switched off
ToggledConfig(config, hidden) ==
    [i \in DOMAIN config |-> [config[i] EXCEPT !.isVisible = (config[i].gameId \notin hidden)]]

\* the config handed to onSave when the modal was opened on gs and config
SavedConfig(gs, config, hidden) == OrderedConfig(ToggledConfig(InitialConfig(gs, config), hidden))

\* setGames(events), then the effect that copies filteredGamesMemo to filteredGames
GamesArrive(gs) ==
    /\ games' = gs
    /\ filteredGames' = ApplyGameConfiguration(gs, gameConfig)
    /\ ComponentSet(GAMES, Value(gs))
    /\ UNCHANGED <<gameConfig, selectedGameIndex>>

\* the modal is opened, games are toggled (hidden: the ids switched off), Save is
\* pressed: handleSave, handleGameConfigSave and the filteredGames effect
SaveGameConfig(hidden) ==
    /\ Len(filteredGames) > 0
    /\ LET newConfig == SavedConfig(games, gameConfig, hidden)
       IN /\ gameConfig' = newConfig
          /\ filteredGames' = ApplyGameConfiguration(games, newConfig)
          /\ ComponentSet(GAME_CONFIG, Value(newConfig))
    /\ UNCHANGED <<games, selectedGameIndex>>

FilterIdle ==
    /\ games = <<>>
    /\ gameConfig = <<>>
    /\ filteredGames = <<>>
    /\ selectedGameIndex = NoSelection

FilterNext ==
    \/ \E gs \in GameLists : GamesArrive(gs)
    \/ \E hidden \in SUBSET (1..MaxGames) : SaveGameConfig(hidden)

(***************************************************************************)
(* RedZoneView: keyboard selection of a game                               *)
(***************************************************************************)
\* how many games the view shows at most when keys are pressed
MaxShown == 11

\* KeyboardEvent.key values, with the UTF-16 code units of the string
KeyValues == {[key |-> "1", codes |-> <<49>>],
             [key |-> "5", codes |-> <<53>>],
             [key |-> "9", codes |-> <<57>>],
             [key |-> "0", codes |-> <<48>>],
             [key |-> "a", codes |-> <<97>>],
             [key |-> "b", codes |-> <<98>>],
             [key |-> "j", codes |-> <<106>>],
             [key |-> "Z", codes |-> <<90>>],
             [key |-> "B", codes |-> <<66>>],
             [key |-> "Enter", codes |-> <<69, 110, 116, 101, 114>>],
             [key |-> "Tab", codes |-> <<84, 97, 98>>],
             [key |-> "Shift", codes |-> <<83, 104, 105, 102, 116>>],
             [key |-> "Escape", codes |-> <<69, 115, 99, 97, 112, 101>>],
             [key |-> "ArrowLeft", codes |-> <<65, 114, 114, 111, 119, 76, 101, 102, 116>>],
             [key |-> "F1", codes |-> <<70, 49>>],
             [key |-> "Backspace", codes |-> <<66, 97, 99, 107, 115, 112, 97, 99, 101>>],
             [key |-> " ", codes |-> <<32>>]}

NoKey == [key |-> "", codes |-> <<>>]

\* a <= b on strings: code unit by code unit, a prefix before its extensions
RECURSIVE StringLE(_, _)
StringLE(a, b) ==
    IF Len(a) = 0 THEN TRUE
    ELSE IF Len(b) = 0 THEN FALSE
    ELSE IF a[1] # b[1] THEN a[1] < b[1]
    ELSE StringLE(Tail(a), Tail(b))

\* String.prototype.toLowerCase on the code units (A-Z only)
ToLowerCase(a) == [i \in DOMAIN a |-> IF a[i] >= 65 /\ a[i] <= 90 THEN a[i] + 32 ELSE a[i]]

\* parseInt on a string that starts with a digit: the number its leading digits spell
RECURSIVE ParseDigits(_, _)
ParseDigits(a, n) ==
    IF Len(a) = 0 \/ a[1] < 48 \/ a[1] > 57 THEN n
    ELSE ParseDigits(Tail(a), 10 * n + (a[1] - 48))

ParseInt(a) == ParseDigits(a, 0)

\* the index handleKeyPress selects for a key, NoSelection when it selects none
KeyGameIndex(codes, shown) ==
    IF StringLE(<<49>>, codes) /\ StringLE(codes, <<57>>)
    THEN LET gameIndex == ParseInt(codes) - 1
         IN IF gameIndex < shown THEN gameIndex ELSE NoSelection
    ELSE IF StringLE(<<97>>, ToLowerCase(codes)) /\ StringLE(ToLowerCase(codes), <<122>>)
    THEN LET gameIndex == 9 + (ToLowerCase(codes)[1] - 97)
         IN IF gameIndex < shown THEN gameIndex ELSE NoSelection
    ELSE NoSelection

\* the keydown listener: handleKeyPress(e) with e.key = k.key
handleKeyPress(k) ==
    /\ LET gameIndex == KeyGameIndex(k.codes, Len(filteredGames))
       IN IF gameIndex # NoSelection
          THEN /\ selectedGameIndex' = gameIndex
               /\ ComponentSet(SELECTED_GAME, Num(gameIndex))
          ELSE UNCHANGED <<selectedGameIndex, cacheVars>>
    /\ keydown' = k
    /\ UNCHANGED <<games, gameConfig, filteredGames>>

\* handleGameClick(index): a click on a game of the list
handleGameClick(index) ==
    /\ index < Len(filteredGames)
    /\ selectedGameIndex' = index
    /\ ComponentSet(SELECTED_GAME, Num(index))
    /\ keydown' = NoKey
    /\ UNCHANGED <<games, gameConfig, filteredGames>>

\* the view showing the first n games of a week, no config stored, none selected
KeysIdle ==
    /\ \E n \in 0..MaxShown : games = [i \in 1..n |-> [id |-> i]]
    /\ gameConfig = <<>>
    /\ filteredGames = games
    /\ selectedGameIndex = NoSelection
    /\ keydown = NoKey

KeysNext ==
    \/ \E k \in KeyValues : handleKeyPress(k)
    \/ \E index \in 0..(MaxShown - 1) : handleGameClick(index)

(***************************************************************************)
(* GameConfigModal: the window filter                                      *)
(***************************************************************************)
\* the kickoffs of the modal's game: every minute of one week, as ms
GameDates == {m * (MS_PER_HOUR \div 60) : m \in 0..(7 * 24 * 60 - 1)}

\* Date.prototype.getMinutes
GetMinutes(t) == (t \div (MS_PER_HOUR \div 60)) % 60

\* Date.prototype.getDay, the clock read as UTC: 0 = Sunday; day 0 of the clock
\* is a Thursday
GetDay(t) == ((t \div (24 * MS_PER_HOUR)) + 4) % 7

isEarlyWindow(game) ==
    LET hour == GetHours(game.date)
        minute == GetMinutes(game.date)
        dayOfWeek == GetDay(game.date)
    IN dayOfWeek = 0 /\ ((hour = 19 /\ minute = 0) \/ (hour = 20 /\ minute = 0))

isLateWindow(game) ==
    LET hour == GetHours(game.date)
        minute == GetMinutes(game.date)
        dayOfWeek == GetDay(game.date)
    IN dayOfWeek = 0 /\ hour >= 22 /\ hour <= 23 /\ minute <= 50

WindowFilters == {"all", "early", "late", "early+late"}

\* the modal not open
NoModal == [date |-> 0, windowFilter |-> "all", isVisible |-> TRUE, applied |-> FALSE]

\* how many rows of one league the table is followed up to, and how many
\* inserts and league-list fetches can be in flight
MaxRows == 2

\* the leagues a user can type in the add-league form
FormLeagues == {"L1", "L2"}

MaxInFlight == 2

\* the Dashboard not mounted, the table empty
NoDashboard == [rows |-> [id \in FormLeagues |-> 0], leagues |-> [id \in FormLeagues |-> 0],
                pendingLeagueId |-> "", loading |-> FALSE, inserts |-> <<>>, fetches |-> 0,
                message |-> ""]

ModalIdle == modal = NoModal /\ keydown = NoKey /\ hiddenLeagues = {} /\ dashboard = NoDashboard

\* the modal opened on a game without stored config
ModalOpen == keydown = NoKey /\ hiddenLeagues = {} /\ dashboard = NoDashboard /\ \E d \in GameDates : modal = [NoModal EXCEPT !.date = d]

\* applyWindowFilter(filter); applied: the visibility is the one the filter gave
applyWindowFilter(filter) ==
    LET shouldBeVisible ==
            IF filter = "early" THEN isEarlyWindow(modal)
            ELSE IF filter = "late" THEN isLateWindow(modal)
            ELSE IF filter = "early+late" THEN isEarlyWindow(modal) \/ isLateWindow(modal)
            ELSE TRUE
    IN modal' = [modal EXCEPT !.windowFilter = filter, !.isVisible = shouldBeVisible,
                              !.applied = TRUE]

toggleGameVisibility ==
    modal' = [modal EXCEPT !.isVisible = ~modal.isVisible, !.applied = FALSE]

resetToDefault ==
    modal' = [modal EXCEPT !.windowFilter = "all", !.isVisible = TRUE, !.applied = FALSE]

ModalNext ==
    \/ \E filter \in WindowFilters : applyWindowFilter(filter)
    \/ toggleGameVisibility
    \/ resetToDefault

(***************************************************************************)
(* Lineup aggregation (RedZoneView.fetchAllLineups, api.ts roster helpers) *)
(***************************************************************************)
MaxLeagues == 2

League1 == [sleeper_league_id |-> "L1", custom_nickname |-> "Nick1",
            league_name |-> "Name1", sleeper_user_id |-> "u1"]
League2 == [sleeper_league_id |-> "L2", custom_nickname |-> "",
            league_name |-> "Name2", sleeper_user_id |-> "u1"]
\* a league stored without its Sleeper user id
League3 == [sleeper_league_id |-> "L3", custom_nickname |-> "",
            league_name |-> "", sleeper_user_id |-> ""]
LeagueRows == {League1, League2, League3}

LeagueLists == {q \in SeqsUpTo(LeagueRows, MaxLeagues) :
                  \A i, j \in DOMAIN q : i # j => q[i] # q[j]}

\* fetchSleeperPlayers(): p9 is a starter id the table does not know
PlayerTable == {[player_id |-> "p1", team |-> "NE", position |-> "QB", first_name |-> "A",
                 last_name |-> "One", number |-> "12", status |-> "Active"],
                [player_id |-> "p2", team |-> "", position |-> "", first_name |-> "B",
                 last_name |-> "Two", number |-> "", status |-> "Inactive"],
                [player_id |-> "p3", team |-> "KC", position |-> "WR", first_name |-> "C",
                 last_name |-> "Three", number |-> "87", status |-> "Active"]}
PlayerIds == {"p1", "p2", "p3", "p9"}

RostersA == <<[roster_id |-> 1, owner_id |-> "u1", starters |-> <<"p1", "p2">>],
              [roster_id |-> 2, owner_id |-> "u2", starters |-> <<"p2", "p9">>]>>
RostersB == <<[roster_id |-> 1, owner_id |-> "u1", starters |-> <<"p1">>],
              [roster_id |-> 2, owner_id |-> "u2", starters |-> <<"p3", "p1">>]>>
\* the user owns no roster here
RostersC == <<[roster_id |-> 2, owner_id |-> "u2", starters |-> <<"p3">>]>>

NoMatchups == <<>>
\* the two rosters meet, the matchup records carry no starters
PairedMatchups ==
    <<[roster_id |-> 1, matchup_id |-> 1, hasStarters |-> FALSE, starters |-> <<>>],
      [roster_id |-> 2, matchup_id |-> 1, hasStarters |-> FALSE, starters |-> <<>>]>>
\* the two rosters meet, the matchup records carry the week's starters
PairedWithStarters ==
    <<[roster_id |-> 1, matchup_id |-> 1, hasStarters |-> TRUE, starters |-> <<"p3", "p1">>],
      [roster_id |-> 2, matchup_id |-> 1, hasStarters |-> TRUE, starters |-> <<"p2">>]>>
\* the two rosters play other matchups
ApartMatchups ==
    <<[roster_id |-> 1, matchup_id |-> 1, hasStarters |-> FALSE, starters |-> <<>>],
      [roster_id |-> 2, matchup_id |-> 2, hasStarters |-> FALSE, starters |-> <<>>]>>

Response(ok, rosters, matchups) == [ok |-> ok, rosters |-> rosters, matchups |-> matchups]
\* Promise.all([rosters, users, matchups]) of one league: rejected, or resolved
Responses == {Response(FALSE, <<>>, <<>>),
              Response(TRUE, RostersA, PairedWithStarters),
              Response(TRUE, RostersA, NoMatchups),
              Response(TRUE, RostersB, PairedMatchups),
              Response(TRUE, RostersB, ApartMatchups),
              Response(TRUE, RostersC, PairedMatchups)}

\* Array.prototype.find, on the matches in list order: the first one, as a list
\* of one, or none
First(hits) == IF Len(hits) = 0 THEN <<>> ELSE <<hits[1]>>

findUserRoster(rosters, sleeperUserId) ==
    First(SelectSeq(rosters, LAMBDA roster : roster.owner_id = sleeperUserId))

\* an opponent search that takes the first other roster, matchups or not
findOtherRoster(rosters, matchups, userRosterId) ==
    First(SelectSeq(rosters, LAMBDA r : r.roster_id # userRosterId))

findOpponentRoster(rosters, matchups, userRosterId) ==
    LET userMatchup == First(SelectSeq(matchups, LAMBDA m : m.roster_id = userRosterId))
    IN IF userMatchup = <<>> THEN <<>>
       ELSE LET opponentMatchup ==
                    First(SelectSeq(matchups, LAMBDA m : /\ m.matchup_id = userMatchup[1].matchup_id
                                              /\ m.roster_id # userRosterId))
            IN IF opponentMatchup = <<>> THEN <<>>
               ELSE First(SelectSeq(rosters, LAMBDA r : r.roster_id = opponentMatchup[1].roster_id))

\* the league's own name only
LeagueNameRaw(league) == league.league_name

\* league.custom_nickname || league.league_name || 'League'
LeagueName(league) ==
    IF league.custom_nickname # "" THEN league.custom_nickname
    ELSE IF league.league_name # "" THEN league.league_name
    ELSE "League"

HasPlayer(players, playerId) == \E r \in players : r.player_id = playerId
PlayerOf(players, playerId) == CHOOSE r \in players : r.player_id = playerId

PlayerData(player, league, isOpponent) ==
    [playerId |-> player.player_id,
     position |-> IF player.position # "" THEN player.position ELSE "N/A",
     team |-> IF player.team # "" THEN player.team ELSE "FA",
     leagueId |-> league.sleeper_league_id,
     leagueName |-> LeagueName(league),
     isOpponent |-> isOpponent]

NewEntry(playerData) ==
    [playerId |-> playerData.playerId, position |-> playerData.position,
     team |-> playerData.team, leagueId |-> playerData.leagueId,
     leagueName |-> playerData.leagueName, isOpponent |-> playerData.isOpponent,
     leagueIds |-> <<playerData.leagueId>>, leagueNames |-> <<playerData.leagueName>>]

\* a merge that never looks for the player in the list
AddPlayerAlways(lineups, playerId, players, league, isOpponent) ==
    IF playerId = "" \/ ~HasPlayer(players, playerId) THEN lineups
    ELSE Append(lineups, NewEntry(PlayerData(PlayerOf(players, playerId), league, isOpponent)))

\* a merge that leaves a player already in the list as they are
AddPlayerOnce(lineups, playerId, players, league, isOpponent) ==
    IF playerId = "" \/ ~HasPlayer(players, playerId) THEN lineups
    ELSE LET playerData == PlayerData(PlayerOf(players, playerId), league, isOpponent)
         IN IF \E i \in DOMAIN lineups : /\ lineups[i].playerId = playerId
                                         /\ lineups[i].isOpponent = isOpponent
                                         /\ lineups[i].team = playerData.team
            THEN lineups
            ELSE Append(lineups, NewEntry(playerData))

\* a merge whose findIndex takes an entry of either side
AddPlayerAnySide(lineups, playerId, players, league, isOpponent) ==
    IF playerId = "" \/ ~HasPlayer(players, playerId) THEN lineups
    ELSE LET playerData == PlayerData(PlayerOf(players, playerId), league, isOpponent)
             hits == {i \in DOMAIN lineups : /\ lineups[i].playerId = playerId
                                             /\ lineups[i].team = playerData.team}
         IN IF hits # {}
            THEN LET existingPlayerIndex == CHOOSE i \in hits : \A j \in hits : i <= j
                 IN [lineups EXCEPT
                       ![existingPlayerIndex].leagueIds = Append(@, playerData.leagueId),
                       ![existingPlayerIndex].leagueNames = Append(@, playerData.leagueName)]
            ELSE Append(lineups, NewEntry(playerData))

\* the body of the starters loops: findIndex, then push to the entry or push an entry
AddPlayer(lineups, playerId, players, league, isOpponent) ==
    IF playerId = "" \/ ~HasPlayer(players, playerId) THEN lineups
    ELSE LET playerData == PlayerData(PlayerOf(players, playerId), league, isOpponent)
             hits == {i \in DOMAIN lineups : /\ lineups[i].playerId = playerId
                                             /\ lineups[i].isOpponent = isOpponent
                                             /\ lineups[i].team = playerData.team}
         IN IF hits # {}
            THEN LET existingPlayerIndex == CHOOSE i \in hits : \A j \in hits : i <= j
                 IN [lineups EXCEPT
                       ![existingPlayerIndex].leagueIds = Append(@, playerData.leagueId),
                       ![existingPlayerIndex].leagueNames = Append(@, playerData.leagueName)]
            ELSE Append(lineups, NewEntry(playerData))

\* for (const playerId of starters) ...
RECURSIVE AddStarters(_, _, _, _, _)
AddStarters(lineups, starters, players, league, isOpponent) ==
    IF Len(starters) = 0 THEN lineups
    ELSE AddStarters(AddPlayer(lineups, Head(starters), players, league, isOpponent),
                     Tail(starters), players, league, isOpponent)

\* one turn of the league loop, once Promise.all has resolved
MergeLeague(lineups, league, response, players) ==
    IF league.sleeper_user_id = "" THEN lineups
    ELSE LET userRoster == findUserRoster(response.rosters, league.sleeper_user_id)
         IN IF userRoster = <<>> THEN lineups
            ELSE LET opponentRoster ==
                         findOpponentRoster(response.rosters, response.matchups,
                                            userRoster[1].roster_id)
                     withUser == AddStarters(lineups, userRoster[1].starters, players,
                                             league, FALSE)
                 IN IF opponentRoster = <<>> THEN withUser
                    ELSE AddStarters(withUser, opponentRoster[1].starters, players,
                                     league, TRUE)

\* AllLeaguesView: userMatchup?.starters || userRoster.starters
ActualUserStarters(response, userRoster) ==
    LET userMatchup == First(SelectSeq(response.matchups, LAMBDA m : m.roster_id = userRoster.roster_id))
    IN IF userMatchup # <<>> /\ userMatchup[1].hasStarters
       THEN userMatchup[1].starters ELSE userRoster.starters

\* AllLeaguesView: opponentMatchup?.starters || opponentRoster?.starters
ActualOpponentStarters(response, userRoster) ==
    LET userMatchup == First(SelectSeq(response.matchups, LAMBDA m : m.roster_id = userRoster.roster_id))
        opponentMatchup ==
            IF userMatchup = <<>> THEN <<>>
            ELSE First(SelectSeq(response.matchups, LAMBDA m : /\ m.matchup_id = userMatchup[1].matchup_id
                                 /\ m.roster_id # userRoster.roster_id))
        opponentRoster == findOpponentRoster(response.rosters, response.matchups,
                                             userRoster.roster_id)
    IN IF opponentMatchup # <<>> /\ opponentMatchup[1].hasStarters
       THEN opponentMatchup[1].starters
       ELSE IF opponentRoster # <<>> THEN opponentRoster[1].starters ELSE <<>>

(***************************************************************************)
(* refreshData and the league loop of fetchAllLineups                      *)
(***************************************************************************)
MaxRefreshes == 2

NoHist == [count |-> 0, errors |-> 0, failed |-> FALSE, fetched |-> FALSE,
           published |-> FALSE, everPublished |-> FALSE,
           pre |-> [games |-> <<>>, currentWeek |-> 1, sleeperPlayers |-> {},
                    playerLineups |-> <<>>, req |-> [k \in STORAGE_KEYS |-> NoReq]]]

\* the whole table, keyed by player id
FullPlayers(players, lineups) ==
    [playerId \in {r.player_id : r \in players} |-> PlayerOf(players, playerId)]

\* setCompactSleeperPlayers: the players of the table that are in the lineups
CompactPlayers(players, lineups) ==
    LET playerIds == {lineups[i].playerId : i \in DOMAIN lineups}
    IN [playerId \in {id \in playerIds : HasPlayer(players, id)} |->
          LET r == PlayerOf(players, playerId)
          IN [first_name |-> r.first_name, last_name |-> r.last_name,
              position |-> r.position, team |-> r.team, number |-> r.number]]

\* refreshData with no league configured
RefreshNoLeagues ==
    /\ pc = "idle"
    /\ Len(userLeagues) = 0
    /\ error' = "No leagues configured. Please add leagues first."
    /\ UNCHANGED <<cacheVars, nflState, scoreboard, weekCalculationCache, lastCall,
                   games, gameConfig, filteredGames, selectedGameIndex,
                   userLeagues, gateway, outage, sleeperPlayers, currentWeek, playerLineups,
                   loading, pc, idx, allLineups, leagueCalls, hist>>

\* refreshData up to its first await; n: the league the provider will not answer
\* for while this refresh runs, 0 when it answers as gateway says
RefreshStart(n) ==
    /\ pc = "idle"
    /\ Len(userLeagues) > 0
    /\ hist.count < MaxRefreshes
    /\ n <= Len(userLeagues)
    /\ outage' = n
    /\ loading' = TRUE
    /\ error' = ""
    /\ pc' = "fetching"
    /\ hist' = [count |-> hist.count + 1, errors |-> 0, failed |-> FALSE, fetched |-> FALSE,
                published |-> FALSE, everPublished |-> hist.everPublished,
                pre |-> [games |-> games, currentWeek |-> currentWeek,
                         sleeperPlayers |-> sleeperPlayers,
                         playerLineups |-> playerLineups, req |-> req]]
    /\ UNCHANGED <<cacheVars, nflState, scoreboard, weekCalculationCache, lastCall,
                   games, gameConfig, filteredGames, selectedGameIndex,
                   userLeagues, gateway, sleeperPlayers, currentWeek, playerLineups,
                   idx, allLineups, leagueCalls>>

\* a setLoading(false) written as the last statement of the try block: it is
\* skipped when the block threw
LoadingAfterTry(threw) == threw

\* finally { setLoading(false) }, whether the try block threw or not
LoadingAtEnd(threw) == FALSE

\* Promise.all([fetchFilteredCurrentWeekGames(), fetchSleeperPlayers()]) settles;
\* pOk: the players call succeeds
FetchDone(sOk, eOk, pOk) ==
    /\ pc = "fetching"
    /\ FetchFilteredCurrentWeekGames(nflState, scoreboard.week, scoreboard.events, sOk, eOk)
    /\ IF lastCall'.outcome = "returned" /\ pOk
       THEN /\ games' = lastCall'.eventsOut
            /\ filteredGames' = ApplyGameConfiguration(lastCall'.eventsOut, gameConfig)
            /\ currentWeek' = lastCall'.week
            /\ sleeperPlayers' = PlayerTable
            /\ ComponentSets(<<[key |-> GAMES, data |-> Value(lastCall'.eventsOut)],
                               [key |-> CURRENT_WEEK, data |-> Num(lastCall'.week)]>>)
            /\ pc' = "leagues"
            /\ idx' = 1
            /\ allLineups' = <<>>
            /\ hist' = [hist EXCEPT !.fetched = TRUE]
            /\ UNCHANGED <<loading, error>>
       ELSE /\ error' = "Error fetching data"
            /\ loading' = LoadingAtEnd(TRUE)
            /\ pc' = "idle"
            /\ hist' = [hist EXCEPT !.errors = @ + 1, !.failed = TRUE]
            /\ UNCHANGED <<cacheVars, games, filteredGames, currentWeek, sleeperPlayers,
                           idx, allLineups>>
    /\ UNCHANGED <<nflState, scoreboard, gameConfig, selectedGameIndex,
                   userLeagues, gateway, outage, playerLineups, leagueCalls>>

\* a catch that shows what was merged before the failure
PartialLineups(shown, merged) == merged

\* fetchAllLineups' catch: setError only, the list shown stays
LineupsAfterFailure(shown, merged) == shown

\* the three calls of a league, in the order Promise.all lists them
CallNames == {"rosters", "users", "matchups"}

NoCalls == [inflight |-> {}, arrived |-> <<>>,
            results |-> [rosters |-> <<>>, users |-> <<>>, matchups |-> <<>>]]

\* calls issued for every league from n on at once
IssuedForAll(n, leagues) ==
    {[league |-> m, call |-> c] : m \in n..Len(leagues), c \in CallNames}

\* Promise.all([fetchSleeperLeagueRosters(leagueId), fetchSleeperLeagueUsers(leagueId),
\* fetchSleeperMatchups(leagueId, week)]): the calls issued in the loop's turn n
IssuedCalls(n, leagues) == {[league |-> n, call |-> c] : c \in CallNames}

\* what a call of league n answers when it settles
CallData(n, c) ==
    IF c = "rosters" THEN gateway[n].rosters
    ELSE IF c = "matchups" THEN gateway[n].matchups
    ELSE <<>>

\* const [rosters, users, matchups] = await Promise.all(...): each result in the
\* slot of its call
PromiseAll(results) == Response(TRUE, results.rosters, results.matchups)

\* the loop's turn once Promise.all has settled with response: the league is
\* merged; after the last league the list is published and refreshData ends; merged:
\* the list with this league's starters added, computed once
LeagueTurn(response) ==
    /\ \E merged \in {MergeLeague(allLineups, userLeagues[idx], response, sleeperPlayers)} :
          IF ~response.ok \/ idx = outage
          THEN /\ error' = "Error fetching lineups"
               /\ loading' = LoadingAtEnd(FALSE)
               /\ pc' = "idle"
               /\ hist' = [hist EXCEPT !.errors = @ + 1, !.failed = TRUE]
               /\ playerLineups' = LineupsAfterFailure(playerLineups, allLineups)
               /\ UNCHANGED <<cacheVars, idx, allLineups>>
          ELSE IF idx < Len(userLeagues)
          THEN /\ allLineups' = merged
               /\ idx' = idx + 1
               /\ UNCHANGED <<cacheVars, playerLineups, loading, error, pc, hist>>
          ELSE /\ allLineups' = merged
               /\ idx' = idx + 1
               /\ playerLineups' = merged
               /\ ComponentSets(
                    <<[key |-> PLAYER_LINEUPS, data |-> Value(merged)],
                      [key |-> SLEEPER_PLAYERS,
                       data |-> Obj(CompactPlayers(sleeperPlayers, merged))]>>)
               /\ loading' = LoadingAtEnd(FALSE)
               /\ pc' = "idle"
               /\ hist' = [hist EXCEPT !.published = TRUE, !.everPublished = TRUE]
               /\ UNCHANGED error
    /\ UNCHANGED <<nflState, scoreboard, weekCalculationCache, lastCall,
                   games, gameConfig, filteredGames, selectedGameIndex,
                   userLeagues, gateway, outage, sleeperPlayers, currentWeek>>

\* one turn of fetchAllLineups' loop, its calls taken as one
LeagueStep ==
    /\ pc = "leagues"
    /\ leagueCalls = NoCalls
    /\ LeagueTurn(gateway[idx])
    /\ UNCHANGED leagueCalls

\* the loop's turn up to its await: the league's three calls are issued
IssueCalls ==
    /\ pc = "leagues"
    /\ leagueCalls.inflight = {}
    /\ leagueCalls' = [NoCalls EXCEPT !.inflight = IssuedCalls(idx, userLeagues)]
    /\ UNCHANGED <<cacheVars, nflState, scoreboard, weekCalculationCache, lastCall, games,
                   gameConfig, filteredGames, selectedGameIndex, userLeagues, gateway, outage,
                   sleeperPlayers, currentWeek, playerLineups, loading, error, pc, idx,
                   allLineups, hist>>

\* call c of the league under way settles; the league's failure shows as the
\* rejection of its rosters call, which rejects Promise.all at once; the last
\* call to fulfil resumes the loop
CallSettles(c) ==
    /\ pc = "leagues"
    /\ [league |-> idx, call |-> c] \in leagueCalls.inflight
    /\ LET left == leagueCalls.inflight \ {[league |-> idx, call |-> c]}
           results == [leagueCalls.results EXCEPT ![c] = CallData(idx, c)]
           arrived == Append(leagueCalls.arrived, c)
       IN IF c = "rosters" /\ (~gateway[idx].ok \/ idx = outage)
          THEN /\ LeagueTurn(Response(FALSE, <<>>, <<>>))
               /\ leagueCalls' = [NoCalls EXCEPT !.arrived = arrived]
          ELSE IF left # {}
          THEN /\ leagueCalls' = [inflight |-> left, arrived |-> arrived, results |-> results]
               /\ UNCHANGED <<cacheVars, nflState, scoreboard, weekCalculationCache, lastCall, games,
                   gameConfig, filteredGames, selectedGameIndex, userLeagues, gateway, outage,
                              sleeperPlayers, currentWeek, playerLineups, loading, error,
                              pc, idx, allLineups, hist>>
          ELSE /\ \E response \in {PromiseAll(results)} : LeagueTurn(response)
               /\ leagueCalls' = [NoCalls EXCEPT !.arrived = arrived]

(***************************************************************************)
(* RedZoneView: the players of the selected game (getPlayersForGame)       *)
(***************************************************************************)
NoTeamData == [myPlayers |-> <<>>, opponents |-> <<>>]

\* the week's games as ESPN lists them: game 3 has no home competitor, the
\* games after it have no competitions[0]
Competition(id) ==
    CASE id = 1 -> [hasCompetition |-> TRUE, home |-> "KC", away |-> "NE"]
      [] id = 2 -> [hasCompetition |-> TRUE, home |-> "DAL", away |-> "KC"]
      [] id = 3 -> [hasCompetition |-> TRUE, home |-> "", away |-> "NE"]
      [] OTHER -> [hasCompetition |-> FALSE, home |-> "", away |-> ""]

BoardGames == [i \in 1..(MaxGames + 1) |-> [id |-> i]]

\* the positions of the player's leagues that are not hidden
visibleLeagueIndices(player, hidden) ==
    SelectSeq([i \in 1..Len(player.leagueIds) |-> i],
              LAMBDA i : player.leagueIds[i] \notin hidden)

\* the entry handed on with all its leagues
UnfilteredPlayer(player, hidden) == player

filteredPlayer(player, hidden) ==
    LET visible == visibleLeagueIndices(player, hidden)
    IN [player EXCEPT !.leagueIds = [j \in 1..Len(visible) |-> player.leagueIds[visible[j]]],
                      !.leagueNames = [j \in 1..Len(visible) |->
                                         player.leagueNames[visible[j]]]]

\* every lineup entry counts, whatever the league filter says
AllPlayers(lineups, hidden) == lineups

\* playerLineups.filter(player => player.leagueIds.some(id => !hiddenLeagues.has(id)))
visiblePlayers(lineups, hidden) ==
    SelectSeq(lineups, LAMBDA player : \E i \in DOMAIN player.leagueIds :
                                           player.leagueIds[i] \notin hidden)

\* teamPlayerMap.get(team) || { myPlayers: [], opponents: [] }
TeamPlayers(lineups, hidden, team) ==
    LET ofTeam == SelectSeq(visiblePlayers(lineups, hidden), LAMBDA player : player.team = team)
        mine == SelectSeq(ofTeam, LAMBDA player : ~player.isOpponent)
        theirs == SelectSeq(ofTeam, LAMBDA player : player.isOpponent)
    IN [myPlayers |-> [j \in DOMAIN mine |-> filteredPlayer(mine[j], hidden)],
        opponents |-> [j \in DOMAIN theirs |-> filteredPlayer(theirs[j], hidden)]]

getPlayersForGame(game, lineups, hidden) ==
    IF ~game.hasCompetition THEN [homeTeam |-> NoTeamData, awayTeam |-> NoTeamData]
    ELSE [homeTeam |-> TeamPlayers(lineups, hidden, game.home),
          awayTeam |-> TeamPlayers(lineups, hidden, game.away)]

\* selectedGameIndex !== null ? filteredGames[selectedGameIndex] : null, with a
\* position past the list's end giving undefined
HasSelectedGame == selectedGameIndex # NoSelection /\ selectedGameIndex < Len(filteredGames)

selectedGame == Competition(filteredGames[selectedGameIndex + 1].id)

\* the memo of the selected game's players, read when a game is selected
selectedGamePlayers == getPlayersForGame(selectedGame, playerLineups, hiddenLeagues)

\* the leagues the league filter lists: those of the lineup entries
uniqueLeagues(lineups) ==
    UNION {{lineups[i].leagueIds[j] : j \in DOMAIN lineups[i].leagueIds} : i \in DOMAIN lineups}

LeagueIds == {league.sleeper_league_id : league \in LeagueRows}

\* newSet: prev without leagueId when it has it, with it otherwise
ToggledSet(prev, leagueId) ==
    IF leagueId \in prev THEN prev \ {leagueId} ELSE prev \cup {leagueId}

\* toggleLeagueVisibility(leagueId), from the league filter's list
toggleLeagueVisibility(leagueId) ==
    /\ leagueId \in uniqueLeagues(playerLineups)
    /\ LET newSet == ToggledSet(hiddenLeagues, leagueId)
       IN /\ hiddenLeagues' = newSet
          /\ ComponentSet(HIDDEN_LEAGUES, Arr(newSet))
    /\ keydown' = NoKey
    /\ UNCHANGED <<games, gameConfig, filteredGames, selectedGameIndex>>

\* fetchAllLineups' loop over the first n leagues, as a function of what the
\* gateways answer
RECURSIVE Aggregate(_, _, _)
Aggregate(leagues, responses, n) ==
    IF n = 0 THEN <<>>
    ELSE MergeLeague(Aggregate(leagues, responses, n - 1), leagues[n], responses[n],
                     PlayerTable)

\* the lineups a finished aggregation leaves in the cache
BoardLineups ==
    {Aggregate(leagues, responses, Len(leagues)) :
        leagues \in LeagueLists, responses \in [1..MaxLeagues -> Responses]}

(***************************************************************************)
(* Dashboard: adding and removing leagues                                  *)
(***************************************************************************)
\* q without its i-th element
RemoveAt(q, i) == SubSeq(q, 1, i - 1) \o SubSeq(q, i + 1, Len(q))

\* a fetchLeagues() call is issued; calls beyond MaxInFlight are not followed
IssueFetch(n) == IF n < MaxInFlight THEN n + 1 ELSE n

\* addLeague(e) with newLeagueId.trim() = id: the submit button is disabled while
\* loading; an id found in the component's list is refused, any other id opens
\* the user selector
addLeague(id) ==
    /\ ~dashboard.loading
    /\ dashboard' = IF dashboard.leagues[id] > 0
                    THEN [dashboard EXCEPT !.message = "already added"]
                    ELSE [dashboard EXCEPT !.pendingLeagueId = id]
    /\ UNCHANGED cacheVars

\* handleUserSelected up to its first await: a click on a user of the selector,
\* which is shown while pendingLeagueId is set
handleUserSelected ==
    /\ dashboard.pendingLeagueId # ""
    /\ Len(dashboard.inserts) < MaxInFlight
    /\ dashboard' = [dashboard EXCEPT !.loading = TRUE, !.message = "",
                                      !.inserts = Append(@, dashboard.pendingLeagueId)]
    /\ UNCHANGED cacheVars

\* the i-th handleUserSelected under way goes on after its awaits; ok: the
\* league fetch and the insert both succeeded
InsertSettles(i, ok) ==
    /\ i \in DOMAIN dashboard.inserts
    /\ LET id == dashboard.inserts[i] IN
       /\ ok => dashboard.rows[id] < MaxRows
       /\ dashboard' =
            IF ok
            THEN [dashboard EXCEPT !.rows[id] = @ + 1, !.pendingLeagueId = "",
                                   !.message = "added", !.fetches = IssueFetch(@),
                                   !.loading = FALSE, !.inserts = RemoveAt(@, i)]
            ELSE [dashboard EXCEPT !.message = "error", !.loading = FALSE,
                                   !.inserts = RemoveAt(@, i)]
    /\ UNCHANGED cacheVars

handleUserSelectionCancel ==
    /\ dashboard.pendingLeagueId # ""
    /\ dashboard' = [dashboard EXCEPT !.pendingLeagueId = "", !.message = ""]
    /\ UNCHANGED cacheVars

\* removeLeague(leagueId) on a row of the component's list, its delete taken with
\* the click; ok: the delete succeeded
removeLeague(id, ok) ==
    /\ dashboard.leagues[id] > 0
    /\ dashboard' =
         IF ok
         THEN [dashboard EXCEPT !.rows[id] = IF @ > 0 THEN @ - 1 ELSE 0,
                                !.message = "removed", !.fetches = IssueFetch(@)]
         ELSE [dashboard EXCEPT !.message = "error"]
    /\ UNCHANGED cacheVars

\* a fetchLeagues() call settles: the rows of the table become the component's
\* list and go to the cache, or the error is shown
FetchSettles(ok) ==
    /\ dashboard.fetches > 0
    /\ IF ok
       THEN /\ dashboard' = [dashboard EXCEPT !.fetches = @ - 1, !.leagues = dashboard.rows]
            /\ ComponentSet(USER_LEAGUES, Obj(dashboard.rows))
       ELSE /\ dashboard' = [dashboard EXCEPT !.fetches = @ - 1, !.message = "error"]
            /\ UNCHANGED cacheVars

\* the Dashboard mounted on an empty cache, fetchLeagues() issued; the table
\* holds at most one row per league
DashboardMounted ==
    \E rows \in [FormLeagues -> {0, 1}] :
        dashboard = [NoDashboard EXCEPT !.rows = rows, !.fetches = 1]

DashboardNext ==
    \/ \E id \in FormLeagues : addLeague(id)
    \/ handleUserSelected
    \/ \E i \in 1..MaxInFlight, ok \in BOOLEAN : InsertSettles(i, ok)
    \/ handleUserSelectionCancel
    \/ \E id \in FormLeagues, ok \in BOOLEAN : removeLeague(id, ok)
    \/ \E ok \in BOOLEAN : FetchSettles(ok)

\* the component before its leagues are loaded
RefreshIdle ==
    /\ sleeperPlayers = {}
    /\ currentWeek = 1
    /\ playerLineups = <<>>
    /\ loading = FALSE
    /\ error = ""
    /\ pc = "idle"
    /\ idx = 1
    /\ allLineups = <<>>
    /\ outage = 0
    /\ leagueCalls = NoCalls
    /\ hist = NoHist

NoLeagues == userLeagues = <<>> /\ gateway = <<>>

\* the component mounted, its leagues loaded (fetchUserLeagues), the providers fixed
RefreshInit ==
    /\ CacheIdle
    /\ WeekIdle
    /\ FilterIdle
    /\ RefreshIdle
    /\ ModalIdle
    /\ now = Kick2 + 9 * MS_PER_HOUR
    /\ nflState = 1
    /\ scoreboard = [week |-> 1, events |-> <<[week |-> 0, date |-> Kick1],
                                              [week |-> 1, date |-> Kick2]>>]
    /\ userLeagues \in LeagueLists
    /\ gateway \in [DOMAIN userLeagues -> Responses]

RefreshNext ==
    \/ RefreshNoLeagues
    \/ \E n \in 0..MaxLeagues : RefreshStart(n)
    \/ \E sOk \in BOOLEAN, eOk \in BOOLEAN, pOk \in BOOLEAN : FetchDone(sOk, eOk, pOk)
    \/ LeagueStep

weekVars == <<nflState, scoreboard, weekCalculationCache, lastCall>>

filterVars == <<games, gameConfig, filteredGames, selectedGameIndex>>

refreshVars == <<userLeagues, gateway, outage, sleeperPlayers, currentWeek, playerLineups,
                 loading, error, pc, idx, allLineups, leagueCalls, hist>>

uiVars == <<modal, keydown, hiddenLeagues, dashboard>>

vars == <<cacheVars, weekVars, filterVars, refreshVars, uiVars>>

CacheInit == localStorage \in LeftoverStores /\ CacheQuiet /\ now = 0 /\ NoUpstream
             /\ WeekIdle /\ FilterIdle /\ NoLeagues /\ RefreshIdle /\ ModalIdle

\* the view mounted on an empty store, no league loaded
FilterInit == CacheIdle /\ now = 0 /\ NoUpstream /\ WeekIdle /\ FilterIdle
              /\ NoLeagues /\ RefreshIdle /\ ModalIdle

SpecCache ==
    CacheInit /\ [][CacheNext /\ UNCHANGED <<weekVars, filterVars, refreshVars, uiVars>>]_vars

\* the view with games arriving, configs saved and games clicked
SelectNext ==
    \/ \E gs \in GameLists : GamesArrive(gs) /\ UNCHANGED keydown
    \/ \E hidden \in SUBSET (1..MaxGames) : SaveGameConfig(hidden) /\ UNCHANGED keydown
    \/ \E index \in 0..(MaxGames - 1) : handleGameClick(index)

SpecSelect ==
    FilterInit /\ [][SelectNext /\ UNCHANGED <<weekVars, refreshVars, modal, hiddenLeagues,
                                                dashboard>>]_vars

DashboardInit ==
    /\ CacheIdle /\ now = 0 /\ NoUpstream /\ WeekIdle /\ FilterIdle /\ NoLeagues /\ RefreshIdle
    /\ modal = NoModal /\ keydown = NoKey /\ hiddenLeagues = {}
    /\ DashboardMounted

SpecDashboard ==
    DashboardInit /\ [][DashboardNext /\ UNCHANGED <<weekVars, filterVars, refreshVars, modal,
                                                     keydown, hiddenLeagues>>]_vars

\* the cache layer with its clearing calls
ClearNext ==
    \/ \E k \in CacheKeys, v \in Values : Set(k, v)
    \/ \E t \in timers, r1 \in Outcomes, r2 \in Outcomes : TimerFire(t, r1, r2)
    \/ \E k \in CacheKeys, v \in Values, r1 \in Outcomes, r2 \in Outcomes : SetImmediate(k, v, r1, r2)
    \/ \E d \in {ShortStep, LongStep} : Tick(d)
    \/ clearCache
    \/ \E index \in {0 - 1, 0} : setSelectedGame(index)

SpecClear ==
    CacheInit /\ [][ClearNext /\ UNCHANGED <<weekVars, filterVars, refreshVars, uiVars>>]_vars

\* the resolver's module loaded, the view not in use
WeekStart == WeekInit /\ FilterIdle /\ NoLeagues /\ RefreshIdle /\ ModalIdle

SpecWeek == WeekStart /\ [][WeekNext /\ UNCHANGED <<filterVars, refreshVars, uiVars>>]_vars

SpecFilter == FilterInit /\ [][FilterNext /\ UNCHANGED <<weekVars, refreshVars, uiVars>>]_vars

SpecRefresh == RefreshInit /\ [][RefreshNext /\ UNCHANGED uiVars]_vars

\* the gateways of the call-by-call view: a league that answers with a matchup,
\* one that answers with its rosters only, one whose calls reject
CallResponses == {Response(TRUE, RostersB, PairedMatchups), Response(TRUE, RostersA, NoMatchups),
                  Response(FALSE, <<>>, <<>>)}

CallsInit ==
    /\ RefreshInit
    /\ Len(userLeagues) > 0
    /\ \A n \in DOMAIN gateway : gateway[n] \in CallResponses

\* refreshData with the league calls of fetchAllLineups settling one by one
CallsNext ==
    \/ \E n \in 0..MaxLeagues : RefreshStart(n)
    \/ \E sOk \in BOOLEAN, eOk \in BOOLEAN, pOk \in BOOLEAN : FetchDone(sOk, eOk, pOk)
    \/ IssueCalls
    \/ \E c \in CallNames : CallSettles(c)

SpecCalls == CallsInit /\ [][CallsNext /\ UNCHANGED uiVars]_vars

\* the steps in which a call of the refresh under way settles or the loop goes on
CallsSettle ==
    \/ \E sOk \in BOOLEAN, eOk \in BOOLEAN, pOk \in BOOLEAN : FetchDone(sOk, eOk, pOk)
    \/ IssueCalls
    \/ \E c \in CallNames : CallSettles(c)

\* the call-by-call view on leagues whose provider answers unless the refresh
\* under way has its outage
LiveInit ==
    /\ CallsInit
    /\ \A n \in DOMAIN gateway : gateway[n] = Response(TRUE, RostersB, PairedMatchups)

\* the first refresh after the mount, call by call
LiveNext ==
    \/ \E n \in 0..MaxLeagues : hist.count = 0 /\ RefreshStart(n)
    \/ CallsSettle

\* every call issued settles in the end
SpecCallsLive ==
    LiveInit /\ [][LiveNext /\ UNCHANGED uiVars]_vars /\ WF_vars(CallsSettle /\ UNCHANGED uiVars)

\* the modal open on one game, the view behind it idle
WindowInit == CacheIdle /\ now = 0 /\ NoUpstream /\ WeekIdle /\ FilterIdle
              /\ NoLeagues /\ RefreshIdle /\ ModalOpen

SpecWindow ==
    WindowInit /\ [][ModalNext /\ UNCHANGED <<cacheVars, weekVars, filterVars, refreshVars,
                                               keydown, hiddenLeagues, dashboard>>]_vars

\* the view with its games shown, keys pressed and games clicked
KeysInit == CacheIdle /\ now = 0 /\ NoUpstream /\ WeekIdle /\ KeysIdle
            /\ NoLeagues /\ RefreshIdle /\ modal = NoModal /\ hiddenLeagues = {}
            /\ dashboard = NoDashboard

SpecKeys ==
    KeysInit /\ [][KeysNext /\ UNCHANGED <<weekVars, refreshVars, modal, hiddenLeagues,
                                            dashboard>>]_vars

\* the view mounted on the lineups an earlier refresh left in the cache
\* (loadCachedData), the week's games shown, none selected, no league hidden
BoardInit ==
    /\ CacheQuiet
    /\ now = 0
    /\ NoUpstream
    /\ WeekIdle
    /\ NoLeagues
    /\ games = BoardGames
    /\ gameConfig = <<>>
    /\ filteredGames = games
    /\ selectedGameIndex = NoSelection
    /\ modal = NoModal
    /\ keydown = NoKey
    /\ hiddenLeagues = {}
    /\ dashboard = NoDashboard
    /\ playerLineups \in BoardLineups
    /\ localStorage = [k \in STORAGE_KEYS |->
                         IF k = PLAYER_LINEUPS THEN DataString(0, Value(playerLineups))
                         ELSE NoItem]
    /\ sleeperPlayers = {}
    /\ currentWeek = 1
    /\ loading = FALSE
    /\ error = ""
    /\ pc = "idle"
    /\ idx = 1
    /\ allLineups = <<>>
    /\ outage = 0
    /\ leagueCalls = NoCalls
    /\ hist = NoHist

BoardNext ==
    \/ \E index \in 0..MaxGames : handleGameClick(index) /\ UNCHANGED hiddenLeagues
    \/ \E leagueId \in LeagueIds : toggleLeagueVisibility(leagueId)

SpecBoard ==
    BoardInit /\ [][BoardNext /\ UNCHANGED <<weekVars, refreshVars, modal, dashboard>>]_vars

(***************************************************************************)
(* Claims on the cache layer                                               *)
(***************************************************************************)

\* C1 (as stated): storage.set(k, v) and then storage.get(k) at the same instant,
\* with no write failure in between, returns v.
C1_SetThenGetImmediately ==
    lastGet.valid =>
        LET r == req[lastGet.key] IN
        (r.phase = "pending" /\ r.at = lastGet.at) => lastGet.result = r.v

\* C1 (amended): for a payload v that JSON can carry, storage.get(k) returns v when
\* the store holds the write of v: right after storage.setImmediate(k, v), or after
\* storage.set(k, v) once the key's debounce timer has fired and written (no other
\* write or removal of k in between), and at most CACHE_DURATION after the call.
C1_RoundTripAfterWrite ==
    lastGet.valid =>
        LET r == req[lastGet.key] IN
        (/\ r.phase \in {"written", "immediate"}
         /\ lastGet.at - r.at <= CACHE_DURATION
         /\ r.v.kind = "value") => lastGet.result = r.v

\* a get that returned the payload of a debounced set, after its timer wrote it
C1_Witness ==
    /\ lastGet.valid
    /\ req[lastGet.key].phase = "written"
    /\ lastGet.at >= req[lastGet.key].at + DEBOUNCE_DELAY
    /\ lastGet.result = req[lastGet.key].v
    /\ lastGet.result # NULL

\* C10 (as stated): after a quota failure and a second quota failure on the retry,
\* the write of redzone_sleeper_players raises nothing and the write of any other
\* key raises the quota error.
C10_SecondQuotaFailure ==
    (lastWrite.first = "quota" /\ lastWrite.retry = "quota") =>
        IF lastWrite.key = SLEEPER_PLAYERS
        THEN lastWrite.raised = "none"
        ELSE lastWrite.raised = "quota"

\* C14: storage.get(k) on a parsable entry whose timestamp is more than 30
\* minutes before now returns null and removes the entry (and nothing else); on
\* an entry of age at most 30 minutes it returns the stored payload and leaves
\* the store as it is.
C14_LazyExpiry ==
    [][lastGet'.valid =>
         LET k == lastGet'.key
             item == localStorage[k]
         IN item.kind = "json" =>
              IF now - item.timestamp > CACHE_DURATION
              THEN /\ lastGet'.result = NULL
                   /\ localStorage' = [localStorage EXCEPT ![k] = NoItem]
              ELSE /\ lastGet'.result = item.data
                   /\ localStorage' = localStorage]_vars

\* a get that found a written entry older than 30 minutes, returned null and
\* left the key empty
C14_Witness ==
    /\ lastGet.valid
    /\ req[lastGet.key].phase \in {"written", "immediate"}
    /\ lastGet.at - req[lastGet.key].at > CACHE_DURATION
    /\ lastGet.result = NULL
    /\ localStorage[lastGet.key] = NoItem

\* C39: at all times debounceMap has an entry for a key exactly when one write
\* timer is pending for the key, the entry is that timer, and no key has two
\* timers; and when the timer of a key runs, the key's entry is removed and no
\* timer of the key is left, whether the write succeeded, was given up after a
\* quota failure, or threw.
C39_DebounceTimerTable ==
    /\ [](\A k \in STORAGE_KEYS :
            /\ Cardinality({t \in timers : t.key = k}) <= 1
            /\ debounceMap[k] # NoTimer <=> Cardinality({t \in timers : t.key = k}) = 1
            /\ debounceMap[k] # NoTimer => debounceMap[k] \in timers /\ debounceMap[k].key = k)
    /\ [][\A k \in STORAGE_KEYS :
            (timers' # timers /\ lastWrite'.key = k) =>
                /\ debounceMap[k] \in timers
                /\ timers' = timers \ {debounceMap[k]}
                /\ debounceMap'[k] = NoTimer
                /\ \A k2 \in STORAGE_KEYS \ {k} : debounceMap'[k2] = debounceMap[k2]]_vars

\* the timer of one key has just written, on the retry after a quota failure, and
\* its entry is gone, while the timer of another key is still pending
C39_Witness ==
    \E k \in STORAGE_KEYS :
        /\ lastWrite.key = k
        /\ lastWrite.first = "quota"
        /\ lastWrite.stored
        /\ req[k].phase = "written"
        /\ debounceMap[k] = NoTimer
        /\ \E k2 \in STORAGE_KEYS \ {k} : debounceMap[k2] \in timers

\* C15: storage.set calls on a key that follow each other within 500 ms leave one
\* scheduled write for the key: it is due 500 ms after the last call and carries
\* the last call's value, whatever is set on other keys; when it writes, it
\* writes that value, 500 ms after the last call.
C15_DebounceCollapse ==
    \A k \in STORAGE_KEYS :
        /\ Cardinality({t \in timers : t.key = k}) <= 1
        /\ req[k].phase = "pending" =>
               {t \in timers : t.key = k} =
                   {[key |-> k, due |-> req[k].at + DEBOUNCE_DELAY,
                     dataString |-> DataString(req[k].at, req[k].v)]}
        /\ (lastWrite.key = k /\ lastWrite.stored /\ req[k].phase = "written") =>
               /\ now = req[k].at + DEBOUNCE_DELAY
               /\ localStorage[k] = DataString(req[k].at, req[k].v)

\* the single write that two storage.set calls on one key, 250 ms apart, ended in
C15_Witness ==
    \E k \in STORAGE_KEYS :
        /\ lastWrite.key = k
        /\ lastWrite.stored
        /\ req[k].phase = "written"
        /\ req[k].calls = 2
        /\ req[k].at = ShortStep
        /\ timers = {}

\* C16 (as stated): storage.get(key) on text that cannot be parsed returns null
\* and removes the entry.
C16_MalformedEntryEvicted ==
    [][(lastGet'.valid /\ localStorage[lastGet'.key].kind = "bad") =>
         (/\ lastGet'.result = NULL
          /\ localStorage'[lastGet'.key] = NoItem)]_vars

\* C25: a physical write (the timer callback of set, or setImmediate) whose
\* first setItem fails on quota removes every unparsable or expired entry,
\* leaves every other entry of another key as it is and tries the same write
\* once more; a retry that succeeds leaves the new value stored and raises
\* nothing; a first call or a retry that fails otherwise raises that error, the
\* first without any retry or eviction.
C25_EvictAndRetryOnce ==
    [][lastWrite'.key # "" =>
         LET k == lastWrite'.key
             Stale(j) == \/ localStorage[j].kind = "bad"
                         \/ /\ localStorage[j].kind = "json"
                            /\ now - localStorage[j].timestamp > CACHE_DURATION
             NewValue == IF timers' # timers
                         THEN \E t \in timers \ timers' : localStorage'[k] = t.dataString
                         ELSE localStorage'[k].kind = "json" /\ localStorage'[k].timestamp = now
         IN /\ lastWrite'.first = "quota" =>
                  /\ lastWrite'.retry \in Outcomes
                  /\ \A j \in STORAGE_KEYS \ {k} :
                         localStorage'[j] = IF Stale(j) THEN NoItem ELSE localStorage[j]
                  /\ lastWrite'.retry = "ok" =>
                         lastWrite'.stored /\ lastWrite'.raised = "none" /\ NewValue
                  /\ lastWrite'.retry = "error" =>
                         /\ ~lastWrite'.stored /\ lastWrite'.raised = "error"
                         /\ localStorage'[k] = IF Stale(k) THEN NoItem ELSE localStorage[k]
            /\ lastWrite'.first = "error" =>
                  /\ lastWrite'.retry = "none" /\ lastWrite'.raised = "error"
                  /\ ~lastWrite'.stored
                  /\ localStorage' = localStorage
            /\ lastWrite'.first = "ok" =>
                  /\ lastWrite'.retry = "none" /\ lastWrite'.raised = "none"
                  /\ lastWrite'.stored /\ NewValue
                  /\ \A j \in STORAGE_KEYS \ {k} : localStorage'[j] = localStorage[j]]_vars

\* a retried write that got through after clearExpired removed an entry and kept
\* the unexpired entry of another key
C25_Witness ==
    /\ lastWrite.first = "quota"
    /\ lastWrite.retry = "ok"
    /\ lastWrite.stored
    /\ lastWrite.evicted # {}
    /\ \E j \in STORAGE_KEYS \ {lastWrite.key} : localStorage[j].kind = "json"

\* C30 (as stated): when storage.set(k, v1) was followed by a storage.setImmediate(k, v2)
\* that stored v2 while the timer of the set was still waiting, the step in which
\* that timer fires leaves v2's item under k.
C30_ImmediateNotOverwritten ==
    [][\A k \in STORAGE_KEYS :
          (/\ req[k].phase = "immediate"
           /\ debounceMap[k] # NoTimer
           /\ debounceMap'[k] = NoTimer)
          => localStorage'[k] = DataString(req[k].at, req[k].v)]_vars

\* C31 (as stated): a key removed by storage.clearCache() or by
\* storage.setSelectedGame(null) stays absent until a set or setImmediate made
\* after the clear: while no such call was made for it, the only step that puts an
\* item under the key is a setImmediate of that key.
C31_ClearIsFinal ==
    [][\A k \in STORAGE_KEYS :
          (req[k].phase = "cleared" /\ localStorage'[k] # NoItem)
          => req'[k].phase = "immediate"]_vars

(***************************************************************************)
(* Claims on the week resolver                                             *)
(***************************************************************************)
MaxOf(S) == CHOOSE d \in S : \A e \in S : e <= d

\* C3 (as stated): when the league provider's week W is among the weeks of the
\* scheduled events and the latest kickoff of the events of week W - 1 is T, a
\* resolver call that computes the week (either path) gives W - 1 when now is
\* before T + 9.5 h and W when now is at or after T + 9.5 h.
C3_WeekTransitionThreshold ==
    LET W == lastCall.nflWeek
        ev == lastCall.events
        previous == {ev[i].date : i \in {j \in DOMAIN ev : ev[j].week = W - 1}}
    IN (/\ lastCall.outcome = "returned" /\ ~lastCall.hit /\ lastCall.stateCalls = 1
        /\ W >= 1
        /\ \E i \in DOMAIN ev : ev[i].week = W
        /\ previous # {})
       => lastCall.week = IF lastCall.at < MaxOf(previous) + 19 * HalfHour THEN W - 1 ELSE W

\* C11: a getEffectiveCurrentWeek call that starts while a memoized week is less
\* than 10 minutes old returns the memoized week, calls neither provider
\* (whatever they would answer) and leaves the memo as it is.
C11_MemoIdempotence ==
    [][(/\ weekCalculationCache.valid
        /\ now - weekCalculationCache.timestamp < WEEK_CACHE_DURATION
        /\ lastCall'.fn = "getEffectiveCurrentWeek"
        /\ lastCall'.at = now)
       => (/\ lastCall'.outcome = "returned"
           /\ lastCall'.week = weekCalculationCache.week
           /\ lastCall'.stateCalls = 0
           /\ lastCall'.scoreboardCalls = 0
           /\ weekCalculationCache' = weekCalculationCache)]_vars

\* a getEffectiveCurrentWeek call answered from a memo one millisecond short of
\* 10 minutes old
C11_Witness ==
    /\ lastCall.fn = "getEffectiveCurrentWeek"
    /\ lastCall.hit
    /\ lastCall.at - weekCalculationCache.timestamp = WEEK_CACHE_DURATION - 1

\* C12 (as stated): a getEffectiveCurrentWeek call that has to ask the providers
\* and finds the schedule provider or the league provider reachable returns a
\* week; it throws only when both are unreachable. (A league provider that
\* answers the first call and not the second is left aside.)
C12_FailsOnlyIfBothUnreachable ==
    (/\ lastCall.fn = "getEffectiveCurrentWeek"
     /\ ~lastCall.hit
     /\ lastCall.stateOk \/ lastCall.scoreboardOk
     /\ ~(lastCall.stateOk /\ lastCall.outcome = "threw"))
    => lastCall.outcome = "returned"

\* C13 (as stated): every week a resolver path returns, and every week it
\* memoizes, is at least 1 (league week absent or at least 1, event weeks at
\* least 0).
C13_PositiveWeek ==
    /\ lastCall.outcome = "returned" => lastCall.week >= 1
    /\ weekCalculationCache.valid => weekCalculationCache.week >= 1

\* the league provider's week of the latest call, 1 when it gave none
CallLeagueWeek == IF lastCall.nflWeek = 0 THEN 1 ELSE lastCall.nflWeek

\* the week numbers of the events the latest call was given
CallEventWeeks == {lastCall.events[i].week : i \in DOMAIN lastCall.events} \ {0}

\* the candidate week as the claims describe it
CallCandidate ==
    IF /\ CallLeagueWeek \notin CallEventWeeks
       /\ lastCall.espnWeek # 0
       /\ lastCall.espnWeek \in CallEventWeeks
    THEN lastCall.espnWeek
    ELSE CallLeagueWeek

\* the kickoffs of the events of week w the latest call was given
CallKickoffs(w) ==
    {lastCall.events[i].date : i \in {j \in DOMAIN lastCall.events : lastCall.events[j].week = w}}

\* the latest call computed the week from the two providers' answers
CallComputed ==
    lastCall.outcome = "returned" /\ ~lastCall.hit /\ lastCall.stateCalls = 1

C19_GraceRelativeToCandidate ==
    LET previous == CallKickoffs(CallCandidate - 1)
    IN (/\ CallComputed
        /\ \A i \in DOMAIN lastCall.events :
               \/ lastCall.at < lastCall.events[i].date + 9 * MS_PER_HOUR
               \/ lastCall.at >= lastCall.events[i].date + 19 * HalfHour)
       => lastCall.week = IF previous # {} /\ lastCall.at < MaxOf(previous) + 9 * MS_PER_HOUR
                          THEN CallCandidate - 1
                          ELSE CallCandidate

\* C21: a getEffectiveCurrentWeek call that asks the providers and has one of the
\* two calls fail issues exactly one more state call and no other; when that
\* call succeeds, the league provider's declared week (1 when absent) is
\* returned and memoized at the current time, whatever the games say; when it
\* fails the call throws and the memo stays as it was.
C21_ResolverFallback ==
    [][(/\ lastCall'.fn = "getEffectiveCurrentWeek"
        /\ ~lastCall'.hit
        /\ ~(lastCall'.stateOk /\ lastCall'.scoreboardOk))
       => (/\ lastCall'.stateCalls = 2
           /\ lastCall'.scoreboardCalls = 1
           /\ lastCall'.outcome \in {"returned", "threw"}
           /\ lastCall'.outcome = "returned" =>
                 /\ lastCall'.week = (IF nflState = 0 THEN 1 ELSE nflState)
                 /\ weekCalculationCache'
                      = [valid |-> TRUE, timestamp |-> now, week |-> lastCall'.week]
           /\ lastCall'.outcome = "threw" => weekCalculationCache' = weekCalculationCache)]_vars

\* a fallback that returns the declared week while the games of the week before
\* are still inside the grace window
C21_Witness ==
    /\ lastCall.fn = "getEffectiveCurrentWeek"
    /\ ~lastCall.hit
    /\ ~lastCall.scoreboardOk
    /\ lastCall.outcome = "returned"
    /\ lastCall.week = nflState
    /\ \E i \in DOMAIN scoreboard.events :
          /\ scoreboard.events[i].week = nflState - 1
          /\ lastCall.at < scoreboard.events[i].date + 9 * MS_PER_HOUR

\* the call just made missed the memo, reached both providers and returned
ComputedCall(fn) ==
    /\ lastCall.fn = fn
    /\ ~lastCall.hit
    /\ lastCall.outcome = "returned"
    /\ lastCall.stateOk
    /\ lastCall.scoreboardOk

EventsOfWeek(events, w) == {i \in DOMAIN events : events[i].week = w}

\* C34: a fetchFilteredCurrentWeekGames call that returns gives week.number = the
\* effective week (the memoized week on a memo hit, the computed and memoized
\* week otherwise) and, as events, the scoreboard events of that week in
\* scoreboard order when there is one, all scoreboard events otherwise; on a memo
\* hit it asks the scoreboard once and the league provider never.
C34_FilteredScoreboard ==
    (lastCall.fn = "fetchFilteredCurrentWeekGames" /\ lastCall.outcome = "returned") =>
        /\ lastCall.week = weekCalculationCache.week
        /\ lastCall.scoreboardCalls = 1
        /\ lastCall.hit => lastCall.stateCalls = 0
        /\ ~lastCall.hit =>
              /\ lastCall.week = FilteredEffectiveWeek(lastCall.nflWeek, lastCall.espnWeek,
                                                       lastCall.events, lastCall.at)
              /\ weekCalculationCache.timestamp = lastCall.at
        /\ IF EventsOfWeek(lastCall.events, lastCall.week) = {}
           THEN lastCall.eventsOut = lastCall.events
           ELSE lastCall.eventsOut =
                    SelectSeq(lastCall.events, LAMBDA e : e.week = lastCall.week)

\* a memo hit that hands back one of two scoreboard events: the other one is of
\* another week
C34_Witness ==
    /\ lastCall.fn = "fetchFilteredCurrentWeekGames"
    /\ lastCall.outcome = "returned"
    /\ lastCall.hit
    /\ Len(lastCall.events) = 2
    /\ Len(lastCall.eventsOut) = 1

(***************************************************************************)
(* Claims on the game filter                                               *)
(***************************************************************************)

\* C2 (as stated): when there are games and the stored config marks every one of
\* them invisible, the filter shows all the games, unfiltered.
C2_FilterFallback ==
    (/\ Len(games) > 0
     /\ \A i \in DOMAIN games :
            \E j \in DOMAIN gameConfig :
                gameConfig[j].gameId = games[i].id /\ ~gameConfig[j].isVisible)
    => filteredGames = games

\* the config the filter resolves for the game at position i of games: the
\* stored entry of its id, or visible with customOrder = its index (0-based)
ResolvedConfig(i) ==
    LET stored == {j \in DOMAIN gameConfig : gameConfig[j].gameId = games[i].id}
    IN IF stored = {} THEN [gameId |-> games[i].id, isVisible |-> TRUE, customOrder |-> i - 1]
       ELSE gameConfig[CHOOSE j \in stored : \A m \in stored : m <= j]

\* the position in games of the game shown at position j
PositionInGames(j) == CHOOSE i \in DOMAIN games : games[i] = filteredGames[j]

\* C18: with games and a non-empty stored config, the games shown are exactly
\* the games whose resolved config is visible, each once, in ascending order of
\* resolved customOrder; a game without a stored entry is among them.
C18_FilterResultAndOrder ==
    (Len(games) > 0 /\ Len(gameConfig) > 0) =>
        /\ \A j \in DOMAIN filteredGames : \E i \in DOMAIN games : games[i] = filteredGames[j]
        /\ \A i \in DOMAIN games :
               ResolvedConfig(i).isVisible <=>
                   \E j \in DOMAIN filteredGames : filteredGames[j] = games[i]
        /\ \A j1, j2 \in DOMAIN filteredGames :
               j1 < j2 =>
                   /\ filteredGames[j1] # filteredGames[j2]
                   /\ ResolvedConfig(PositionInGames(j1)).customOrder
                        <= ResolvedConfig(PositionInGames(j2)).customOrder

\* games shown in an order that is not the order of games, one of them without
\* a stored entry, one game hidden
C18_Witness ==
    /\ Len(gameConfig) > 0
    /\ Len(filteredGames) < Len(games)
    /\ \E j \in DOMAIN filteredGames :
           \A m \in DOMAIN gameConfig : gameConfig[m].gameId # filteredGames[j].id
    /\ \E j1, j2 \in DOMAIN filteredGames :
           j1 < j2 /\ PositionInGames(j1) > PositionInGames(j2)

\* the games of the visible entries of config, in the order of config
VisibleInOrder(config) ==
    LET visible == SelectSeq(config, LAMBDA c : c.isVisible)
    IN [j \in DOMAIN visible |->
           games[CHOOSE i \in DOMAIN games : games[i].id = visible[j].gameId]]

\* the modal opened on the current games and config, the games of hidden switched
\* off, Save pressed
SavedAsShown(hidden) ==
    LET shown == ToggledConfig(InitialConfig(games, gameConfig), hidden)
        saved == SavedConfig(games, gameConfig, hidden)
    IN /\ Len(saved) = Len(games)
       /\ \A i \in DOMAIN games :
              Cardinality({j \in DOMAIN saved : saved[j].gameId = games[i].id}) = 1
       /\ \A j \in DOMAIN saved :
              /\ saved[j].customOrder = j - 1
              /\ saved[j].gameId = shown[j].gameId
              /\ saved[j].isVisible = shown[j].isVisible
       /\ ApplyGameConfiguration(games, saved) = VisibleInOrder(shown)
       /\ OrderedConfig(InitialConfig(games, saved)) = saved

\* C38: whatever games and stored config the modal is opened on and whatever
\* games are switched off in it, the config handed to onSave has exactly one
\* entry per game, with customOrder 0..n-1 in the order of the modal's list; the
\* game filter applied to the same games with that config gives the visible games
\* in that order; and opening the modal on the saved config and saving without a
\* change gives the saved config again. Every change of the stored config is
\* such a save, and the games shown after it are the filter's result.
C38_SavedOrderIsDisplayedOrder ==
    /\ [](\A hidden \in SUBSET (1..MaxGames) : SavedAsShown(hidden))
    /\ [][gameConfig' # gameConfig =>
            /\ \E hidden \in SUBSET (1..MaxGames) :
                   gameConfig' = SavedConfig(games, gameConfig, hidden)
            /\ games' = games
            /\ filteredGames' = VisibleInOrder(gameConfig')]_vars

\* a config saved for all three games, one of them hidden, the games shown in
\* an order that is not the scoreboard's
C38_Witness ==
    /\ Len(games) = MaxGames
    /\ Len(gameConfig) = Len(games)
    /\ \A j \in DOMAIN gameConfig : gameConfig[j].customOrder = j - 1
    /\ \E j \in DOMAIN gameConfig : ~gameConfig[j].isVisible
    /\ filteredGames = VisibleInOrder(gameConfig)
    /\ \E j1, j2 \in DOMAIN filteredGames :
           j1 < j2 /\ PositionInGames(j1) > PositionInGames(j2)

\* C28 (as stated): a keydown selects a game only when its key is one character
\* '1'..'9' (index 0..8) or one letter (index 9..34) and that index is below the
\* number of games shown: it then selects that index and asks for it to be
\* cached; any other key leaves the selection and the cached selection alone.
C28_HotkeysOnly ==
    [][keydown'.key # "" =>
         LET c == keydown'.codes
             isDigit == Len(c) = 1 /\ c[1] >= 49 /\ c[1] <= 57
             isLetter == Len(c) = 1 /\ ((c[1] >= 65 /\ c[1] <= 90) \/ (c[1] >= 97 /\ c[1] <= 122))
             index == IF isDigit THEN c[1] - 49
                      ELSE IF c[1] >= 97 THEN 9 + c[1] - 97 ELSE 9 + c[1] - 65
         IN IF (isDigit \/ isLetter) /\ index < Len(filteredGames)
            THEN /\ selectedGameIndex' = index
                 /\ req'[SELECTED_GAME].phase = "pending"
                 /\ req'[SELECTED_GAME].v = Num(index)
            ELSE /\ selectedGameIndex' = selectedGameIndex
                 /\ req'[SELECTED_GAME] = req[SELECTED_GAME]]_vars

\* C33 (as stated): selectedGameIndex is null or a position of the filtered games
\* list, 0 <= index < filteredGames.length.
C33_SelectionStaysValid ==
    selectedGameIndex = NoSelection
    \/ (0 <= selectedGameIndex /\ selectedGameIndex < Len(filteredGames))

(***************************************************************************)
(* Claims on the lineup aggregation and on refreshData                     *)
(***************************************************************************)
Range(q) == {q[i] : i \in DOMAIN q}

\* no two entries of the list share (playerId, isOpponent, team)
UniqueTriples(lineups) ==
    \A i, j \in DOMAIN lineups :
        i # j => \/ lineups[i].playerId # lineups[j].playerId
                 \/ lineups[i].isOpponent # lineups[j].isOpponent
                 \/ lineups[i].team # lineups[j].team

\* C4: no two entries of the aggregation's list share the same
\* (playerId, isOpponent, team) triple, after each league is merged and in the
\* list that is published.
C4_MergeUniqueness == UniqueTriples(allLineups) /\ UniqueTriples(playerLineups)

\* a published list where a player was merged across two leagues and is also
\* listed on the other side
C4_Witness ==
    /\ hist.published
    /\ \E i, j \in DOMAIN playerLineups :
           /\ Len(playerLineups[i].leagueIds) = 2
           /\ playerLineups[j].playerId = playerLineups[i].playerId
           /\ playerLineups[j].isOpponent # playerLineups[i].isOpponent

\* AllLeaguesView: league.custom_nickname || league.league_name || 'League'
DisplayName(league) ==
    IF league.custom_nickname # "" THEN league.custom_nickname
    ELSE IF league.league_name # "" THEN league.league_name
    ELSE "League"

ParallelLeagueLists(lineups) ==
    \A i \in DOMAIN lineups :
        /\ Len(lineups[i].leagueIds) = Len(lineups[i].leagueNames)
        /\ \A k \in DOMAIN lineups[i].leagueIds :
               \E n \in DOMAIN userLeagues :
                   /\ userLeagues[n].sleeper_league_id = lineups[i].leagueIds[k]
                   /\ DisplayName(userLeagues[n]) = lineups[i].leagueNames[k]

\* C5: after every merge step and in the published list, every entry has as many
\* leagueNames as leagueIds, and leagueNames[k] is the display name of the
\* configured league leagueIds[k].
C5_ParallelLeagueLists == ParallelLeagueLists(allLineups) /\ ParallelLeagueLists(playerLineups)

\* a published entry that lists two leagues, the first by its nickname and the
\* second by its league name
C5_Witness ==
    /\ hist.published
    /\ \E i \in DOMAIN playerLineups :
           /\ playerLineups[i].leagueIds = <<"L1", "L2">>
           /\ playerLineups[i].leagueNames = <<"Nick1", "Name2">>

\* league n resolves (stored user id, calls answered, roster found) and the
\* user's roster starts P there
UserStarts(n, P) ==
    /\ userLeagues[n].sleeper_user_id # ""
    /\ gateway[n].ok
    /\ LET userRoster == findUserRoster(gateway[n].rosters, userLeagues[n].sleeper_user_id)
       IN /\ userRoster # <<>>
          /\ P \in Range(userRoster[1].starters)

\* the first n leagues where the user starts P, in the order they are processed
StartingLeagues(P, n) == SelectSeq([i \in 1..n |-> i], LAMBDA i : UserStarts(i, P))

Deduplicated(lineups, n) ==
    \A P \in PlayerIds :
        LET K == StartingLeagues(P, n)
            E == {i \in DOMAIN lineups : lineups[i].playerId = P /\ ~lineups[i].isOpponent}
        IN (HasPlayer(PlayerTable, P) /\ Len(K) > 0) =>
               /\ Cardinality(E) = 1
               /\ \A i \in E : lineups[i].leagueIds =
                      [j \in 1..Len(K) |-> userLeagues[K[j]].sleeper_league_id]

\* C6: when the user's roster starts a player of the table in k resolving leagues,
\* the list holds exactly one entry of that player with isOpponent = false, and
\* its leagueIds are those k leagues in processing order; after each merged
\* league (k counted over the leagues merged so far) and in the published list.
C6_CrossLeagueDedup ==
    /\ Deduplicated(allLineups, idx - 1)
    /\ hist.everPublished => Deduplicated(playerLineups, Len(userLeagues))

\* a published list after two resolving leagues that both start the same player
C6_Witness ==
    /\ hist.published
    /\ \E P \in PlayerIds : HasPlayer(PlayerTable, P) /\ Len(StartingLeagues(P, Len(userLeagues))) = 2

\* the players of the table among a starters list
KnownPlayers(starters) == {P \in Range(starters) : P # "" /\ HasPlayer(PlayerTable, P)}

\* the players the list holds for a league on one side
SideOf(lineups, leagueId, isOpponent) ==
    {lineups[i].playerId : i \in {j \in DOMAIN lineups :
                                    /\ lineups[j].isOpponent = isOpponent
                                    /\ leagueId \in Range(lineups[j].leagueIds)}}

\* C7 (as stated): in the list fetchAllLineups publishes, each resolving league's
\* user entries are the starters of the user's matchup record when it carries
\* starters (the roster's otherwise), and likewise for the opponent side.
C7_StarterSourcePreference ==
    hist.published =>
        \A n \in DOMAIN userLeagues :
            LET userRoster == findUserRoster(gateway[n].rosters, userLeagues[n].sleeper_user_id)
            IN (userLeagues[n].sleeper_user_id # "" /\ userRoster # <<>>) =>
                 /\ SideOf(playerLineups, userLeagues[n].sleeper_league_id, FALSE)
                      = KnownPlayers(ActualUserStarters(gateway[n], userRoster[1]))
                 /\ SideOf(playerLineups, userLeagues[n].sleeper_league_id, TRUE)
                      = KnownPlayers(ActualOpponentStarters(gateway[n], userRoster[1]))

\* C8 (as stated): when a gateway call failed during a refresh, then once the
\* refresh has ended the games, week, player table and lineups shown are those
\* shown before it, no write of the cached games, week or lineups was made by
\* it, and exactly one error message was set.
C8_NoPartialUpdate ==
    (pc = "idle" /\ hist.count > 0 /\ hist.failed) =>
        /\ games = hist.pre.games
        /\ currentWeek = hist.pre.currentWeek
        /\ sleeperPlayers = hist.pre.sleeperPlayers
        /\ playerLineups = hist.pre.playerLineups
        /\ \A k \in {GAMES, CURRENT_WEEK, PLAYER_LINEUPS} : req[k] = hist.pre.req[k]
        /\ hist.errors = 1
        /\ error # ""

\* the positions of the leagues that have a stored Sleeper user id
KeptLeagues ==
    SelectSeq([i \in 1..Len(userLeagues) |-> i],
              LAMBDA i : userLeagues[i].sleeper_user_id # "")

\* C9 (as stated): when the only league calls that fail are those of leagues
\* without a stored Sleeper user id, the aggregation completes and publishes what
\* aggregating the list without those leagues gives.
C9_DegradedLeagueSkipped ==
    (/\ pc = "idle"
     /\ hist.count > 0
     /\ hist.fetched
     /\ \A n \in DOMAIN userLeagues :
            (~gateway[n].ok \/ n = outage) => userLeagues[n].sleeper_user_id = "")
    => /\ hist.published
       /\ error = ""
       /\ playerLineups = Aggregate([j \in 1..Len(KeptLeagues) |-> userLeagues[KeptLeagues[j]]],
                                    [j \in 1..Len(KeptLeagues) |-> gateway[KeptLeagues[j]]],
                                    Len(KeptLeagues))

\* league n resolves and the user's roster has no opponent this week: no matchup
\* entry of its own, or none other with the matchup id of its entry
ByeWeek(n) ==
    /\ userLeagues[n].sleeper_user_id # ""
    /\ gateway[n].ok
    /\ LET userRoster == findUserRoster(gateway[n].rosters, userLeagues[n].sleeper_user_id)
           ms == gateway[n].matchups
       IN /\ userRoster # <<>>
          /\ LET mine == {i \in DOMAIN ms : ms[i].roster_id = userRoster[1].roster_id}
             IN \/ mine = {}
                \/ LET own == ms[CHOOSE i \in mine : \A j \in mine : i <= j]
                   IN ~\E j \in DOMAIN ms : /\ ms[j].matchup_id = own.matchup_id
                                             /\ ms[j].roster_id # userRoster[1].roster_id

\* the list holds, for league n, the known starters of the user's roster and no
\* opponent entry
OnlyMine(lineups, n) ==
    LET userRoster == findUserRoster(gateway[n].rosters, userLeagues[n].sleeper_user_id)
    IN /\ SideOf(lineups, userLeagues[n].sleeper_league_id, TRUE) = {}
       /\ SideOf(lineups, userLeagues[n].sleeper_league_id, FALSE)
            = KnownPlayers(userRoster[1].starters)

\* C17: for a league in a bye week, findOpponentRoster gives null and the list
\* holds only isOpponent = false entries for the league, once the league is
\* merged and in the published list; a refresh whose gateway calls all succeed
\* publishes and sets no error.
C17_ByeWeek ==
    /\ \A n \in DOMAIN userLeagues :
           ByeWeek(n) =>
               /\ findOpponentRoster(gateway[n].rosters, gateway[n].matchups,
                                      findUserRoster(gateway[n].rosters,
                                                     userLeagues[n].sleeper_user_id)[1].roster_id)
                    = <<>>
               /\ n < idx => OnlyMine(allLineups, n)
               /\ hist.everPublished => OnlyMine(playerLineups, n)
    /\ (pc = "idle" /\ hist.fetched /\ outage = 0 /\ \A n \in DOMAIN userLeagues : gateway[n].ok)
           => hist.published /\ error = ""

\* a published list with the user's starters of a league in a bye week, the other
\* roster of that league having starters of its own
C17_Witness ==
    /\ hist.published
    /\ \E n \in DOMAIN userLeagues :
           /\ ByeWeek(n)
           /\ SideOf(playerLineups, userLeagues[n].sleeper_league_id, FALSE) # {}
           /\ Len(gateway[n].rosters) = 2

\* C22: when a league's gateway call fails in fetchAllLineups, the refresh ends
\* with the list shown, the cached lineups request and the cached player
\* reference request as they were before the refresh, nothing published; the
\* loop has stopped at the first failing league, with the leagues before it
\* merged in the working list and none after it reached.
C22_AbortAllAggregation ==
    (pc = "idle" /\ hist.fetched /\ hist.failed) =>
        /\ ~hist.published
        /\ playerLineups = hist.pre.playerLineups
        /\ req[PLAYER_LINEUPS] = hist.pre.req[PLAYER_LINEUPS]
        /\ req[SLEEPER_PLAYERS] = hist.pre.req[SLEEPER_PLAYERS]
        /\ localStorage[PLAYER_LINEUPS] = NoItem
        /\ localStorage[SLEEPER_PLAYERS] = NoItem
        /\ idx \in DOMAIN userLeagues
        /\ ~gateway[idx].ok \/ idx = outage
        /\ \A m \in 1..(idx - 1) : gateway[m].ok /\ m # outage
        /\ allLineups = Aggregate(userLeagues, gateway, idx - 1)

\* the second league fails after the first was merged, in a refresh that follows
\* a published one: the list shown is the older one, not the partial one
C22_Witness ==
    /\ pc = "idle" /\ hist.fetched /\ hist.failed
    /\ idx = 2
    /\ allLineups # <<>>
    /\ hist.pre.playerLineups # <<>>
    /\ allLineups # playerLineups
    /\ req[PLAYER_LINEUPS].phase = "pending"

\* C23: the calls in flight are those of the league the loop is at, all three of
\* them issued together; while the loop is at league N its working list is the
\* merge of the leagues before N, whatever the order their calls settled in, and
\* the published list is the merge of all leagues.
C23_SequentialLeagues ==
    /\ \A x \in leagueCalls.inflight : pc = "leagues" /\ x.league = idx
    /\ leagueCalls.inflight # {} =>
           {x.call : x \in leagueCalls.inflight} \cup Range(leagueCalls.arrived) = CallNames
    /\ pc = "leagues" => allLineups = Aggregate(userLeagues, gateway, idx - 1)
    /\ hist.published => playerLineups = Aggregate(userLeagues, gateway, Len(userLeagues))

\* two leagues published, the calls of the last one settled in the reverse of the
\* order they were issued in
C23_Witness ==
    /\ hist.published
    /\ Len(userLeagues) = 2
    /\ playerLineups # <<>>
    /\ leagueCalls.arrived = <<"matchups", "users", "rosters">>

\* league n resolves and the roster the user meets there this week starts P
OpponentStarts(n, P) ==
    /\ userLeagues[n].sleeper_user_id # ""
    /\ gateway[n].ok
    /\ LET userRoster == findUserRoster(gateway[n].rosters, userLeagues[n].sleeper_user_id)
       IN /\ userRoster # <<>>
          /\ LET opponentRoster == findOpponentRoster(gateway[n].rosters, gateway[n].matchups,
                                                      userRoster[1].roster_id)
             IN opponentRoster # <<>> /\ P \in Range(opponentRoster[1].starters)

\* the ids of the leagues at the positions K
LeagueIdsAt(K) == {userLeagues[k].sleeper_league_id : k \in K}

\* over the first n leagues: a player the user starts somewhere and an opponent
\* starts somewhere has one entry on each side, and each entry lists the leagues
\* of its own side and no other
SidesApart(lineups, n) ==
    \A P \in PlayerIds :
        LET mine == {k \in 1..n : UserStarts(k, P)}
            theirs == {k \in 1..n : OpponentStarts(k, P)}
            Em == {i \in DOMAIN lineups : lineups[i].playerId = P /\ ~lineups[i].isOpponent}
            Eo == {i \in DOMAIN lineups : lineups[i].playerId = P /\ lineups[i].isOpponent}
        IN HasPlayer(PlayerTable, P) =>
               /\ (mine # {} /\ theirs # {}) => Cardinality(Em) = 1 /\ Cardinality(Eo) = 1
               /\ \A i \in Em : Range(lineups[i].leagueIds) = LeagueIdsAt(mine)
               /\ \A i \in Eo : Range(lineups[i].leagueIds) = LeagueIdsAt(theirs)

\* C24: a player who is a starter of the user in one league and of the user's
\* opponent in a league of the list has two entries, one with isOpponent = false
\* and one with isOpponent = true, and a league id is only in the entry of the
\* side the player starts on in that league; after each merged league and in the
\* published list.
C24_SidesStaySeparate ==
    /\ pc = "leagues" => SidesApart(allLineups, idx - 1)
    /\ hist.everPublished => SidesApart(playerLineups, Len(userLeagues))

\* a published list with a player the user starts in one league and meets as an
\* opponent's starter in another
C24_Witness ==
    /\ hist.published
    /\ \E P \in PlayerIds, n, m \in DOMAIN userLeagues :
           /\ HasPlayer(PlayerTable, P)
           /\ n # m
           /\ UserStarts(n, P) /\ ~OpponentStarts(n, P)
           /\ OpponentStarts(m, P)

\* the fields setCompactSleeperPlayers copies
CompactFields == {"first_name", "last_name", "position", "team", "number"}

\* data is an object with one record per player id of the lineups, each with the
\* five fields as the player table has them
IsCompactOf(data, lineups) ==
    /\ data.kind = "object"
    /\ DOMAIN data.val = {lineups[i].playerId : i \in DOMAIN lineups}
    /\ \A id \in DOMAIN data.val :
          /\ DOMAIN data.val[id] = CompactFields
          /\ \E r \in PlayerTable :
                /\ r.player_id = id
                /\ data.val[id].first_name = r.first_name
                /\ data.val[id].last_name = r.last_name
                /\ data.val[id].position = r.position
                /\ data.val[id].team = r.team
                /\ data.val[id].number = r.number

\* C26: once a refresh has published, the write requested for the player
\* reference key carries one record per distinct playerId of the published
\* lineups and no other, each with first_name, last_name, position, team and
\* number of the player table and nothing else; before the first publication no
\* write of that key is requested, so the full table never is.
C26_Compaction ==
    /\ hist.everPublished =>
          /\ req[SLEEPER_PLAYERS].phase = "pending"
          /\ IsCompactOf(req[SLEEPER_PLAYERS].v, playerLineups)
          /\ \A t \in timers :
                t.key = SLEEPER_PLAYERS => IsCompactOf(t.dataString.data, playerLineups)
    /\ ~hist.everPublished =>
          /\ req[SLEEPER_PLAYERS] = NoReq
          /\ \A t \in timers : t.key # SLEEPER_PLAYERS

\* a published list that holds two of the three players of the table, one of them
\* in two entries
C26_Witness ==
    /\ hist.published
    /\ req[SLEEPER_PLAYERS].phase = "pending"
    /\ Cardinality(DOMAIN req[SLEEPER_PLAYERS].v.val) = 2
    /\ Len(playerLineups) = 3

\* C35: every refreshData that passes the 'no leagues' check sets loading to
\* true, and once its calls have settled loading is false again, whatever the
\* week, games and players fetch and the league calls answer.
C35_RefreshAlwaysFinishes ==
    /\ [][(pc = "idle" /\ pc' # "idle") => loading']_vars
    /\ loading ~> ~loading

\* a refresh has ended with loading false after the calls of its last league
\* were rejected
C35_Witness ==
    /\ pc = "idle"
    /\ ~loading
    /\ hist.count > 0
    /\ idx = Len(userLeagues)
    /\ idx > 1
    /\ hist.failed
    /\ hist.fetched
    /\ error # ""

(***************************************************************************)
(* Claims on the players of the selected game                              *)
(***************************************************************************)
\* the four buckets getPlayersForGame returns
Buckets(P) == <<P.homeTeam.myPlayers, P.homeTeam.opponents,
                P.awayTeam.myPlayers, P.awayTeam.opponents>>

\* the places of a bucket that hold the lineup entry e
PlacesOf(e, bucket) ==
    {j \in DOMAIN bucket : bucket[j].playerId = e.playerId /\ bucket[j].isOpponent = e.isOpponent}

InBucket(e, bucket) == PlacesOf(e, bucket) # {}

SomeLeagueShown(e) == \E i \in DOMAIN e.leagueIds : e.leagueIds[i] \notin hiddenLeagues

\* a game with competitions[0] whose two sides are different teams is selected
TwoTeamGameSelected ==
    HasSelectedGame /\ selectedGame.hasCompetition /\ selectedGame.home # selectedGame.away

\* C29 (as stated): a lineup entry is in homeTeam exactly when its team is the home
\* competitor's abbreviation and in awayTeam exactly when it is the away
\* competitor's, under myPlayers when isOpponent is false and under opponents when
\* it is true; it is in at most one of the four buckets.
C29_PartitionByTeamAndGame ==
    TwoTeamGameSelected =>
        \A i \in DOMAIN playerLineups :
            LET e == playerLineups[i]
                B == Buckets(selectedGamePlayers)
            IN /\ InBucket(e, B[1]) <=> (e.team = selectedGame.home /\ ~e.isOpponent)
               /\ InBucket(e, B[2]) <=> (e.team = selectedGame.home /\ e.isOpponent)
               /\ InBucket(e, B[3]) <=> (e.team = selectedGame.away /\ ~e.isOpponent)
               /\ InBucket(e, B[4]) <=> (e.team = selectedGame.away /\ e.isOpponent)
               /\ Cardinality({b \in 1..4 : InBucket(e, B[b])}) <= 1

\* C29 (amended): the same partition holds of the lineup entries that have a
\* league which is not hidden, each placed once with its league ids and names cut
\* down to the leagues not hidden; an entry whose leagues are all hidden is in no
\* bucket; a game without competitions[0] gets four empty buckets.
C29_PartitionOfShownEntries ==
    /\ TwoTeamGameSelected =>
        \A i \in DOMAIN playerLineups :
            LET e == playerLineups[i]
                B == Buckets(selectedGamePlayers)
                shown == SomeLeagueShown(e)
            IN /\ InBucket(e, B[1]) <=> (shown /\ e.team = selectedGame.home /\ ~e.isOpponent)
               /\ InBucket(e, B[2]) <=> (shown /\ e.team = selectedGame.home /\ e.isOpponent)
               /\ InBucket(e, B[3]) <=> (shown /\ e.team = selectedGame.away /\ ~e.isOpponent)
               /\ InBucket(e, B[4]) <=> (shown /\ e.team = selectedGame.away /\ e.isOpponent)
               /\ Cardinality({b \in 1..4 : InBucket(e, B[b])}) <= 1
               /\ \A b \in 1..4 :
                    /\ Cardinality(PlacesOf(e, B[b])) <= 1
                    /\ \A j \in PlacesOf(e, B[b]) :
                         /\ B[b][j].team = e.team
                         /\ B[b][j].position = e.position
                         /\ Len(B[b][j].leagueIds) = Len(B[b][j].leagueNames)
                         /\ \A m \in DOMAIN e.leagueIds :
                              (e.leagueIds[m] \notin hiddenLeagues) <=>
                                 \E q \in DOMAIN B[b][j].leagueIds :
                                     /\ B[b][j].leagueIds[q] = e.leagueIds[m]
                                     /\ B[b][j].leagueNames[q] = e.leagueNames[m]
                         /\ \A q \in DOMAIN B[b][j].leagueIds :
                              B[b][j].leagueIds[q] \notin hiddenLeagues
    /\ (HasSelectedGame /\ ~selectedGame.hasCompetition) =>
           \A b \in 1..4 : Buckets(selectedGamePlayers)[b] = <<>>

\* a game of two teams is selected with a league hidden: one entry of a playing
\* team is left out because all its leagues are hidden, another is placed with
\* fewer leagues than it has
C29_Witness ==
    /\ TwoTeamGameSelected
    /\ hiddenLeagues # {}
    /\ \E i \in DOMAIN playerLineups :
          /\ playerLineups[i].team \in {selectedGame.home, selectedGame.away}
          /\ ~SomeLeagueShown(playerLineups[i])
    /\ \E i \in DOMAIN playerLineups, b \in 1..4 :
          \E j \in PlacesOf(playerLineups[i], Buckets(selectedGamePlayers)[b]) :
              /\ Len(Buckets(selectedGamePlayers)[b][j].leagueIds) >= 1
              /\ Len(Buckets(selectedGamePlayers)[b][j].leagueIds)
                   < Len(playerLineups[i].leagueIds)

\* the copies of the lineup entry e among the players kept for its team
CopiesOf(e) ==
    LET kept == TeamPlayers(playerLineups, hiddenLeagues, e.team)
        bucket == IF e.isOpponent THEN kept.opponents ELSE kept.myPlayers
    IN {bucket[j] : j \in PlacesOf(e, bucket)}

\* C36: whatever leagues are hidden, a lineup entry is kept for the games of its
\* team exactly when one of its leagues is not hidden; its copy lists its leagues
\* that are not hidden in their order, with the names found at the same places;
\* toggling a league leaves the lineup list and its cache entry as they are, and
\* toggling the same league again gives the hidden set back.
C36_HiddenLeagueView ==
    /\ [](\A i \in DOMAIN playerLineups :
            LET e == playerLineups[i] IN
            /\ (CopiesOf(e) # {}) <=> SomeLeagueShown(e)
            /\ \A copy \in CopiesOf(e) :
                 /\ copy.leagueIds = SelectSeq(e.leagueIds, LAMBDA id : id \notin hiddenLeagues)
                 /\ Len(copy.leagueNames) = Len(copy.leagueIds)
                 /\ \A q \in DOMAIN copy.leagueIds :
                      \E m \in DOMAIN e.leagueIds :
                          /\ e.leagueIds[m] = copy.leagueIds[q]
                          /\ e.leagueNames[m] = copy.leagueNames[q])
    /\ [][hiddenLeagues' # hiddenLeagues =>
            /\ playerLineups' = playerLineups
            /\ localStorage'[PLAYER_LINEUPS] = localStorage[PLAYER_LINEUPS]
            /\ \E leagueId \in LeagueIds :
                  /\ hiddenLeagues' = ToggledSet(hiddenLeagues, leagueId)
                  /\ ToggledSet(hiddenLeagues', leagueId) = hiddenLeagues]_vars

\* after two toggles or more a league is hidden: one entry has lost all its
\* leagues, another one keeps some of them
C36_Witness ==
    /\ hiddenLeagues # {}
    /\ req[HIDDEN_LEAGUES].calls > 1
    /\ \E i \in DOMAIN playerLineups : ~SomeLeagueShown(playerLineups[i])
    /\ \E i \in DOMAIN playerLineups :
          \E copy \in CopiesOf(playerLineups[i]) :
              /\ Len(copy.leagueIds) >= 1
              /\ Len(copy.leagueIds) < Len(playerLineups[i].leagueIds)

(***************************************************************************)
(* Claims on the Dashboard                                                 *)
(***************************************************************************)
\* C37 (as stated): the user's stored league rows hold at most one row per
\* sleeper_league_id.
C37_NoDuplicateLeagues == \A id \in FormLeagues : dashboard.rows[id] <= 1

(***************************************************************************)
(* Claims on the modal's window filter                                     *)
(***************************************************************************)

\* C27 (as stated): the late filter shows a game exactly when its kickoff is on a
\* Sunday at a clock time from 22:00 through 23:50.
C27_LateWindow ==
    (modal.windowFilter = "late" /\ modal.applied) =>
        (modal.isVisible <=>
            /\ GetDay(modal.date) = 0
            /\ 60 * GetHours(modal.date) + GetMinutes(modal.date) >= 60 * 22
            /\ 60 * GetHours(modal.date) + GetMinutes(modal.date) <= 60 * 23 + 50)

====
